---- MODULE Spec2Model ----
(***************************************************************************)
(* Model of pcli2-mcp: the JSON-RPC handler (src/src/mcp.rs), the tool     *)
(* dispatcher and process runner (src/src/pcli.rs), the router             *)
(* (src/src/server.rs) and the thumbnail cache (src/src/thumbnail.rs).     *)
(*                                                                         *)
(* Spec       one request through handle_mcp; the subprocess of a          *)
(*            tools/call is an await point whose result is an input.       *)
(* SpecRun    run_pcli2_command step by step: the child, its two pipes,    *)
(*            the two drain tasks, the wait for exit and the timeout.      *)
(* SpecRunFair  SpecRun with the caller's steps and the clock scheduled    *)
(*            fairly.                                                      *)
(* SpecServe  the same runner called from a tools/call request served      *)
(*            through the router of run_server, with its request timer.    *)
(* SpecCache  the thumbnail cache (src/src/thumbnail.rs) and               *)
(*            GET /thumbnail/:key, one operation at a time.                *)
(* SpecRace   the thumbnail cache used by two requests at a time, each     *)
(*            file-system call a step.                                     *)
(* SpecTemp   two pcli2_asset_thumbnail calls at a time and their output   *)
(*            files in the temporary directory.                            *)
(***************************************************************************)
EXTENDS Integers, Sequences, FiniteSets, TLC

VARIABLES
    \* ---- Spec: one request through handle_mcp
    pc,          \* "idle" | "awaiting" (in run_pcli2_command) | "done"
    req,         \* the bytes of the request being handled
    resp,        \* the HTTP response of handle_mcp
    dispatched,  \* the arm of `match method` that ran, "none" before it
    fx,          \* side effects of the request: "spawn", "cache_save", ...
    susp,        \* the tool call suspended at run_pcli2_command(..).await
    called,      \* the Result<Value, String> that call_tool returned, if it did
    ran,         \* what the suspended tool call met when it went on: the
                 \* subprocess's outcome, run_pcli2_command's result, the output
                 \* file and whether the cache could save
    cacheAvail,  \* state.thumbnail_cache is Some
    \* ---- SpecRun / SpecServe: run_pcli2_command and the router
    rpc,         \* position of the caller in run_pcli2_command
    child,       \* "none" | "running" | "exited" | "killed"
    status,      \* exit status of the child: "none" | "success" | "failure"
    pipe,        \* per stream: units written by the child and not yet read
    wopen,       \* per stream: the child's write end is open
    held,        \* per stream: another process holds the write end open
    task,        \* per stream: the drain task, "none"|"reading"|"ok"|"overflow"
    buf,         \* per stream: units accumulated by read_limited
    got,         \* per stream: units reader.read has handed to read_limited
    now,         \* the clock
    procDeadline,\* deadline of tokio::time::timeout(PCLI2_TIMEOUT, ..), -1 unarmed
    reqDeadline, \* deadline of the router's TimeoutLayer, -1 unarmed
    result,      \* what run_pcli2_command returned
    seen,        \* per stream: the state of its drain task when the call returned
    \* ---- SpecCache: the thumbnail cache and GET /thumbnail/:key
    millis,      \* the wall clock, in milliseconds
    disk,        \* the files, by resolved path
    ret,         \* the last cache operation and what it returned
    prev,        \* the cache operation before it and what it returned
    was,         \* the files before the last cache operation
    ops,         \* cache operations so far
    \* ---- SpecRace: cache operations of concurrent requests, step by step
    th,          \* per thread: its operation, its position in it and its locals
    given,       \* per key: the payloads handed to the saves that generated it
    touched,     \* the keys load_thumbnail or remove_thumbnail was called with
    \* ---- SpecTemp: the output files of thumbnail calls in flight
    tmp          \* the files in env::temp_dir(), by path

rpcVars == <<pc, req, resp, dispatched, fx, susp, called, ran, cacheAvail>>
runVars == <<rpc, child, status, pipe, wopen, held, task, buf, got, now,
             procDeadline, reqDeadline, result, seen>>
raceVars == <<th, given, touched, tmp>>
cacheVars == <<millis, disk, ret, prev, was, ops, th, given, touched, tmp>>
vars == <<pc, req, resp, dispatched, fx, susp, called, ran, cacheAvail,
          rpc, child, status, pipe, wopen, held, task, buf, got, now,
          procDeadline, reqDeadline, result, seen,
          millis, disk, ret, prev, was, ops, th, given, touched, tmp>>

(***************************************************************************)
(* JSON values (serde_json::Value), as far as the handler looks at them.   *)
(***************************************************************************)
Absent == [t |-> "absent", v |-> ""]
JNull == [t |-> "null", v |-> ""]
JStr(s) == [t |-> "string", v |-> s]
JNum(s) == [t |-> "number", v |-> s]

\* a number or another value of a tool argument
AAbsent == [t |-> "absent", n |-> 0]
ANum(n) == [t |-> "number", n |-> n]
AStr == [t |-> "string", n |-> 0]

NoArguments == [t |-> "absent", uuid |-> Absent, path |-> Absent,
                threshold |-> AAbsent, response_mode |-> Absent,
                folder_uuid |-> Absent, folder_path |-> Absent,
                concurrent |-> AAbsent]
EmptyArguments == [t |-> "object", uuid |-> Absent, path |-> Absent,
                   threshold |-> AAbsent, response_mode |-> Absent,
                   folder_uuid |-> Absent, folder_path |-> Absent,
                   concurrent |-> AAbsent]
NoParams == [t |-> "absent", name |-> Absent, arguments |-> NoArguments]
EmptyParams == [t |-> "object", name |-> Absent, arguments |-> NoArguments]
ArrayParams == [t |-> "array", name |-> Absent, arguments |-> NoArguments]

NonObject == [t |-> "array", jsonrpc |-> Absent, id |-> Absent, method |-> Absent,
              params |-> NoParams]

\* Value::get(key)...as_str() of an object member
as_str(value) == IF value.t = "string" THEN [some |-> TRUE, v |-> value.v]
                 ELSE [some |-> FALSE, v |-> ""]

(***************************************************************************)
(* The requests a client may send.                                         *)
(***************************************************************************)
ToolNames == {"pcli2_tenant_list", "pcli2_asset_get", "pcli2_geometric_match",
              "pcli2_asset_part_match", "pcli2_asset_thumbnail",
              "pcli2_thumbnail_cache_cleanup", "pcli2_folder_get",
              "pcli2_folder_geometric_match", "pcli2_folder_part_match",
              "pcli2_folder_visual_match"}

JsonrpcValues == {Absent, JStr("2.0"), JStr("1.0"), JNum("2")}
IdValues == {Absent, JNull, JNum("1"), JStr("a")}
MethodValues == {Absent, JNum("7"), JStr("initialize"), JStr("tools/list"),
                 JStr("tools/call"), JStr("resources/list")}
NameValues == {Absent, JNum("3"), JStr("nope")} \cup {JStr(n) : n \in ToolNames}
ThresholdValues == {AAbsent, ANum(-1), ANum(100), ANum(101)}
ConcurrentValues == {AAbsent, ANum(-1), ANum(0), ANum(10), ANum(11)}
ResponseModes == {Absent, JStr("url"), JStr("data_url"), JStr("inline")}

\* arguments naming an asset, and arguments naming a folder
AssetArguments(thresholds, modes) ==
    [t : {"object"}, uuid : {Absent, JStr("u1")}, path : {Absent, JStr("/p")},
     threshold : thresholds, response_mode : modes,
     folder_uuid : {Absent}, folder_path : {Absent}, concurrent : {AAbsent}]
FolderArguments(uuids, thresholds, concurrents) ==
    [t : {"object"}, uuid : {Absent}, path : {Absent},
     threshold : thresholds, response_mode : {Absent},
     folder_uuid : uuids, folder_path : {Absent, JStr("/f")},
     concurrent : concurrents]

\* The arguments sent with a tool name vary in the members that tool reads.
ArgumentValues(name) ==
    {NoArguments} \cup
    CASE name = JStr("pcli2_asset_get") -> AssetArguments({AAbsent}, {Absent})
      [] name \in {JStr("pcli2_geometric_match"), JStr("pcli2_asset_part_match")} ->
             AssetArguments(ThresholdValues, {Absent})
      [] name = JStr("pcli2_asset_thumbnail") -> AssetArguments({AAbsent}, ResponseModes)
      [] name = JStr("pcli2_folder_get") ->
             FolderArguments({Absent, JStr("f1")}, {AAbsent}, {AAbsent})
      [] name \in {JStr("pcli2_folder_geometric_match"),
                   JStr("pcli2_folder_part_match")} ->
             FolderArguments({Absent}, ThresholdValues, ConcurrentValues)
      [] name = JStr("pcli2_folder_visual_match") ->
             FolderArguments({Absent}, {AAbsent}, ConcurrentValues)
      [] OTHER -> {EmptyArguments}
ParamValues ==
    {NoParams, ArrayParams} \cup
    UNION {[t : {"object"}, name : {name}, arguments : ArgumentValues(name)] :
           name \in NameValues}
ObjectValues ==
    [t : {"object"}, jsonrpc : JsonrpcValues, id : IdValues, method : MethodValues,
     params : {NoParams, ArrayParams}]
    \cup
    [t : {"object"}, jsonrpc : JsonrpcValues, id : IdValues,
     method : {JStr("tools/call")}, params : ParamValues]

\* The bytes of a body: well-formed JSON text of `value`, or (wf = FALSE) text
\* that is not JSON, in which `value` is what a reader can still make out.
Bodies == [wf : BOOLEAN, value : ObjectValues \cup {NonObject}]

(***************************************************************************)
(* Responses (mcp.rs: RpcResponse, RpcErrorResponse, json_ok, json_error). *)
(* `members` is the set of members of the serialised body; it is empty for *)
(* StatusCode::OK.into_response(), which has no body.                      *)
(***************************************************************************)
NoResult == [kind |-> "none", text |-> <<>>]
NoResponse == [status |-> 0, members |-> {}, jsonrpc |-> "", id |-> Absent,
               result |-> NoResult, code |-> 0, message |-> <<>>]

json_ok(id, res) ==
    [status |-> 200, members |-> {"jsonrpc", "id", "result"}, jsonrpc |-> "2.0",
     id |-> id, result |-> res, code |-> 0, message |-> <<>>]

\* json_error serialising one struct with both optional members
json_error_with_result(id, code, message) ==
    [status |-> 200, members |-> {"jsonrpc", "id", "result", "error"}, jsonrpc |-> "2.0",
     id |-> id, result |-> NoResult, code |-> code, message |-> message]

\* an error envelope sent with StatusCode::BAD_REQUEST
json_error_bad_request(id, code, message) ==
    [status |-> 400, members |-> {"jsonrpc", "id", "error"}, jsonrpc |-> "2.0",
     id |-> id, result |-> NoResult, code |-> code, message |-> message]

json_error(id, code, message) ==
    [status |-> 200, members |-> {"jsonrpc", "id", "error"}, jsonrpc |-> "2.0",
     id |-> id, result |-> NoResult, code |-> code, message |-> message]

status_ok ==
    [status |-> 200, members |-> {}, jsonrpc |-> "", id |-> Absent,
     result |-> NoResult, code |-> 0, message |-> <<>>]

\* a lenient parser that recovers a value from text that is not JSON
from_slice_lenient(bytes) == [ok |-> TRUE, value |-> bytes.value]

\* serde_json::from_slice(&bytes)
from_slice(bytes) ==
    IF bytes.wf THEN [ok |-> TRUE, value |-> bytes.value]
    ELSE [ok |-> FALSE, value |-> NonObject]

NoRequest == [jsonrpc |-> Absent, id |-> Absent, method |-> Absent, params |-> NoParams]

\* parse_rpc_request with `Some(_) => None` for a jsonrpc that is not a string
parse_rpc_request_lenient(value) ==
    IF value.t # "object"
    THEN [ok |-> FALSE, message |-> <<"Invalid Request: expected a JSON object">>,
          request |-> NoRequest]
    ELSE IF value.method.t \notin {"absent", "string"}
    THEN [ok |-> FALSE, message |-> <<"Invalid Request: 'method' must be a string">>,
          request |-> NoRequest]
    ELSE [ok |-> TRUE, message |-> <<>>,
          request |-> [jsonrpc |-> IF value.jsonrpc.t = "string" THEN value.jsonrpc
                                   ELSE Absent,
                       id |-> value.id, method |-> value.method,
                       params |-> value.params]]

parse_rpc_request(value) ==
    IF value.t # "object"
    THEN [ok |-> FALSE, message |-> <<"Invalid Request: expected a JSON object">>,
          request |-> NoRequest]
    ELSE IF value.jsonrpc.t \notin {"absent", "string"}
    THEN [ok |-> FALSE, message |-> <<"Invalid Request: 'jsonrpc' must be a string">>,
          request |-> NoRequest]
    ELSE IF value.method.t \notin {"absent", "string"}
    THEN [ok |-> FALSE, message |-> <<"Invalid Request: 'method' must be a string">>,
          request |-> NoRequest]
    ELSE [ok |-> TRUE, message |-> <<>>,
          request |-> [jsonrpc |-> value.jsonrpc, id |-> value.id,
                       method |-> value.method, params |-> value.params]]

\* the id taken without unwrap_or(Value::Null)
id_or_null_absent(request) == request.id

\* request.id.clone().unwrap_or(Value::Null)
id_or_null(request) == IF request.id.t = "absent" THEN JNull ELSE request.id

\* a handler without the test for notifications
is_null_never(id) == FALSE

\* id.is_null()
is_null(id) == id.t = "null"

\* a version test that lets "1.0" through
wrong_version_legacy(request) ==
    request.jsonrpc.t = "string" /\ request.jsonrpc.v \notin {"2.0", "1.0"}

\* the `if let Some(version) = request.jsonrpc.as_deref() && version != "2.0"` test
wrong_version(request) == request.jsonrpc.t = "string" /\ request.jsonrpc.v # "2.0"

(***************************************************************************)
(* run_pcli2_command's results (pcli.rs 1592-1662) as message parts.       *)
(***************************************************************************)
RunOk(out) == [ok |-> TRUE, kind |-> "success", text |-> out]
SpawnErr == [ok |-> FALSE, kind |-> "spawn", text |-> <<"Failed to execute pcli2: ", "os error">>]
OverflowErr(stream) ==
    [ok |-> FALSE, kind |-> "overflow",
     text |-> <<"pcli2 ", stream, " exceeded maximum output size of ", "limit", " bytes">>]
TimeoutErr(label) ==
    [ok |-> FALSE, kind |-> "timeout", text |-> <<label, " failed: timed out after ", "1800s">>]
\* an error of a failed exit that leaves out what the child wrote to stderr
ExitErr_without_stderr(label, out, err) ==
    [ok |-> FALSE, kind |-> "exit",
     text |-> <<label, " failed (code ", "exit status: 1", "):\n">> \o out]

ExitErr(label, out, err) ==
    [ok |-> FALSE, kind |-> "exit",
     text |-> <<label, " failed (code ", "exit status: 1", "):\n">> \o out \o <<"\n">> \o err]
NoRun == [ok |-> FALSE, kind |-> "none", text |-> <<>>]

\* Captured output is a sequence of pieces: words, white space, and bytes
\* that are not UTF-8.
Whitespace == {" ", "\n"}
InvalidUtf8 == "0xFF"
REPLACEMENT_CHARACTER == "U+FFFD"

\* String::from_utf8_lossy
from_utf8_lossy(bytes) ==
    [i \in DOMAIN bytes |-> IF bytes[i] = InvalidUtf8 THEN REPLACEMENT_CHARACTER
                            ELSE bytes[i]]

\* str::trim_end
RECURSIVE trim_end(_)
trim_end(text) ==
    IF text = <<>> THEN text
    ELSE IF text[Len(text)] \in Whitespace THEN trim_end(SubSeq(text, 1, Len(text) - 1))
    ELSE text

\* the output kept whole, trailing white space included
command_output_untrimmed(label, success, stdout, stderr) ==
    IF success THEN RunOk(from_utf8_lossy(stdout))
    ELSE ExitErr(label, from_utf8_lossy(stdout), from_utf8_lossy(stderr))

\* the end of run_pcli2_command (pcli.rs 1648-1661), after wait and both joins
command_output(label, success, stdout, stderr) ==
    IF success THEN RunOk(trim_end(from_utf8_lossy(stdout)))
    ELSE ExitErr(label, trim_end(from_utf8_lossy(stdout)),
                 trim_end(from_utf8_lossy(stderr)))

\* What a subprocess does, as run_pcli2_command sees it.
Stdouts == {<<"tenant list ok", "\n">>, <<>>, <<" ", InvalidUtf8, " ">>}
Stderrs == {<<>>, <<"unknown args", "\n">>}
Outcome(kind) == [kind |-> kind, success |-> FALSE, stdout |-> <<>>, stderr |-> <<>>]
NoOutcome == Outcome("none")
Outcomes ==
    [kind : {"exit"}, success : BOOLEAN, stdout : Stdouts, stderr : Stderrs]
    \cup {Outcome(k) : k \in {"spawn", "overflow_stdout", "overflow_stderr", "timeout"}}

run_pcli2_command(label, outcome) ==
    CASE outcome.kind = "spawn" -> SpawnErr
      [] outcome.kind = "overflow_stdout" -> OverflowErr("stdout")
      [] outcome.kind = "overflow_stderr" -> OverflowErr("stderr")
      [] outcome.kind = "timeout" -> TimeoutErr(label)
      [] OTHER -> command_output(label, outcome.success, outcome.stdout, outcome.stderr)

RunResults(label) == {run_pcli2_command(label, outcome) : outcome \in Outcomes}

(***************************************************************************)
(* The tool dispatcher (pcli.rs: call_tool and the run_pcli2_* functions). *)
(* A call either returns at once or is suspended at                        *)
(* run_pcli2_command(..).await; call_tool_resume is the rest of it.        *)
(***************************************************************************)
Return(ok, text, effects) ==
    [k |-> "return", ok |-> ok, text |-> text, fx |-> effects,
     tool |-> "", label |-> "", arguments |-> NoArguments]
Await(tool, label, arguments) ==
    [k |-> "await", ok |-> FALSE, text |-> <<>>, fx |-> {"spawn"},
     tool |-> tool, label |-> label, arguments |-> arguments]

\* a check of the upper end only
validate_range_f64_upper(value, min, max) ==
    IF value.t = "number" /\ value.n > max
    THEN [ok |-> FALSE,
          message |-> <<"Invalid argument '", "threshold", "': value ", ToString(value.n),
                        " must be between ", ToString(min), " and ", ToString(max)>>]
    ELSE [ok |-> TRUE, message |-> <<>>]

validate_range_f64(value, min, max) ==
    IF value.t = "number" /\ (value.n < min \/ value.n > max)
    THEN [ok |-> FALSE,
          message |-> <<"Invalid argument '", "threshold", "': value ", ToString(value.n),
                        " must be between ", ToString(min), " and ", ToString(max)>>]
    ELSE [ok |-> TRUE, message |-> <<>>]

\* as_u64() is None for a negative number, which is then not checked
validate_range_u64(value, min, max) ==
    IF value.t = "number" /\ value.n >= 0 /\ (value.n < min \/ value.n > max)
    THEN [ok |-> FALSE,
          message |-> <<"Invalid argument '", "concurrent", "': value ", ToString(value.n),
                        " must be between ", ToString(min), " and ", ToString(max)>>]
    ELSE [ok |-> TRUE, message |-> <<>>]

require_uuid_or_path(arguments) ==
    IF ~as_str(arguments.uuid).some /\ ~as_str(arguments.path).some
    THEN [ok |-> FALSE,
          message |-> <<"Missing required argument: provide either 'uuid' or 'path'">>]
    ELSE [ok |-> TRUE, message |-> <<>>]

require_folder_uuid_or_path(arguments) ==
    IF ~as_str(arguments.folder_uuid).some /\ ~as_str(arguments.folder_path).some
    THEN [ok |-> FALSE,
          message |-> <<"Missing required argument: provide either 'folder_uuid' or 'folder_path'">>]
    ELSE [ok |-> TRUE, message |-> <<>>]

\* parse_string_list of a member that is a string or absent
parse_string_list(value) == IF value.t = "string" THEN <<value.v>> ELSE <<>>

\* the checks run_pcli2_folder_geometric_match and run_pcli2_folder_part_match
\* make before they run the command
folder_match_checks(arguments) ==
    IF ~validate_range_f64(arguments.threshold, 0, 100).ok
    THEN validate_range_f64(arguments.threshold, 0, 100)
    ELSE IF ~validate_range_u64(arguments.concurrent, 1, 10).ok
    THEN validate_range_u64(arguments.concurrent, 1, 10)
    ELSE IF parse_string_list(arguments.folder_path) = <<>>
    THEN [ok |-> FALSE, message |-> <<"Missing required argument: 'folder_path'">>]
    ELSE [ok |-> TRUE, message |-> <<>>]

\* the checks run_pcli2_folder_visual_match makes before it runs the command
folder_visual_checks(arguments) ==
    IF ~validate_range_u64(arguments.concurrent, 1, 10).ok
    THEN validate_range_u64(arguments.concurrent, 1, 10)
    ELSE IF parse_string_list(arguments.folder_path) = <<>>
    THEN [ok |-> FALSE, message |-> <<"Missing required argument: 'folder_path'">>]
    ELSE [ok |-> TRUE, message |-> <<>>]

\* push_opt_u64: the flag and the value, when as_u64() gives one
push_opt_u64(value, flag) ==
    IF value.t = "number" /\ value.n >= 0 THEN <<flag, ToString(value.n)>> ELSE <<>>

\* the checks of run_pcli2_asset_geometric_match and run_pcli2_asset_part_match
asset_match_checks(arguments) ==
    IF ~validate_range_f64(arguments.threshold, 0, 100).ok
    THEN validate_range_f64(arguments.threshold, 0, 100)
    ELSE require_uuid_or_path(arguments)

\* a message that does not name the tool
unknown_tool_unnamed(name) == <<"Unknown tool">>

\* format!("Unknown tool '{}'", name)
unknown_tool(name) == <<"Unknown tool '", name, "'">>

run_simple_tool(label, res) ==
    IF res.ok THEN Return(TRUE, res.text, {})
    ELSE Return(FALSE, <<label, " failed: ">> \o res.text, {})

\* cache.cleanup_expired() as the tool sees it: Ok(count) or an I/O error
CleanupResults == {"ok", "io_error"}

call_tool(params, cache, cleanup) ==
    LET name == IF params.t = "object" THEN as_str(params.name)
                ELSE [some |-> FALSE, v |-> ""]
        arguments == IF params.t = "object" /\ params.arguments.t = "object"
                     THEN params.arguments ELSE EmptyArguments
    IN  IF ~name.some THEN Return(FALSE, <<"Missing tool name">>, {})
        ELSE IF name.v = "pcli2_tenant_list"
        THEN Await(name.v, "pcli2 tenant list", arguments)
        ELSE IF name.v = "pcli2_asset_get"
        THEN IF ~require_uuid_or_path(arguments).ok
             THEN run_simple_tool("pcli2 asset get",
                      [ok |-> FALSE, text |-> require_uuid_or_path(arguments).message])
             ELSE Await(name.v, "pcli2 asset get", arguments)
        ELSE IF name.v = "pcli2_geometric_match"
        THEN IF ~asset_match_checks(arguments).ok
             THEN Return(FALSE, asset_match_checks(arguments).message, {})
             ELSE Await(name.v, "pcli2 asset geometric-match", arguments)
        ELSE IF name.v = "pcli2_asset_part_match"
        THEN IF ~asset_match_checks(arguments).ok
             THEN run_simple_tool("pcli2 asset part-match",
                      [ok |-> FALSE, text |-> asset_match_checks(arguments).message])
             ELSE Await(name.v, "pcli2 asset part-match", arguments)
        ELSE IF name.v = "pcli2_folder_get"
        THEN IF ~require_folder_uuid_or_path(arguments).ok
             THEN run_simple_tool("pcli2 folder get",
                      [ok |-> FALSE, text |-> require_folder_uuid_or_path(arguments).message])
             ELSE Await(name.v, "pcli2 folder get", arguments)
        ELSE IF name.v = "pcli2_folder_geometric_match"
        THEN IF ~folder_match_checks(arguments).ok
             THEN run_simple_tool("pcli2 folder geometric-match",
                      [ok |-> FALSE, text |-> folder_match_checks(arguments).message])
             ELSE Await(name.v, "pcli2 folder geometric-match", arguments)
        ELSE IF name.v = "pcli2_folder_part_match"
        THEN IF ~folder_match_checks(arguments).ok
             THEN run_simple_tool("pcli2 folder part-match",
                      [ok |-> FALSE, text |-> folder_match_checks(arguments).message])
             ELSE Await(name.v, "pcli2 folder part-match", arguments)
        ELSE IF name.v = "pcli2_folder_visual_match"
        THEN IF ~folder_visual_checks(arguments).ok
             THEN run_simple_tool("pcli2 folder visual-match",
                      [ok |-> FALSE, text |-> folder_visual_checks(arguments).message])
             ELSE Await(name.v, "pcli2 folder visual-match", arguments)
        ELSE IF name.v = "pcli2_asset_thumbnail"
        THEN IF ~require_uuid_or_path(arguments).ok
             THEN Return(FALSE, require_uuid_or_path(arguments).message, {})
             ELSE Await(name.v, "pcli2 asset thumbnail", arguments)
        ELSE IF name.v = "pcli2_thumbnail_cache_cleanup"
        THEN IF ~cache
             THEN Return(TRUE, <<"Thumbnail cache is not available">>, {})
             ELSE IF cleanup = "ok"
             THEN Return(TRUE, <<"Cleaned up ", "count", " expired thumbnail(s)">>,
                         {"cache_cleanup"})
             ELSE Return(FALSE, <<"Thumbnail cache cleanup failed: ", "os error">>,
                         {"cache_cleanup"})
        ELSE Return(FALSE, unknown_tool(name.v), {})

\* what fs::read(&temp_path) finds after the subprocess has succeeded
FileResults == {"unreadable", "not_png", "png"}
NoFileRead == "unread"

data_url == <<"data:image/png;base64,", "encoded">>

\* a choice of mode that answers an unrecognized mode with the data URL
thumbnail_after_run_strict(arguments, cache, file, saved) ==
    IF file = "unreadable"
    THEN Return(FALSE, <<"Failed to read thumbnail output: ", "os error">>, {})
    ELSE IF file = "not_png"
    THEN Return(FALSE, <<"Thumbnail output was not a valid PNG file.">>, {})
    ELSE IF as_str(arguments.response_mode).some
            /\ as_str(arguments.response_mode).v # "url"
    THEN Return(TRUE, data_url, {})
    ELSE IF cache
    THEN IF saved
         THEN Return(TRUE, <<"base_url", "/", "cache_key">>, {"cache_save"})
         ELSE Return(FALSE, <<"Failed to create thumbnail file ", "os error">>,
                     {"cache_save"})
    ELSE Return(TRUE, data_url, {})

\* a tool that does not look at the signature of the output
thumbnail_after_run_unchecked(arguments, cache, file, saved) ==
    IF file = "unreadable"
    THEN Return(FALSE, <<"Failed to read thumbnail output: ", "os error">>, {})
    ELSE IF as_str(arguments.response_mode).some
            /\ as_str(arguments.response_mode).v = "data_url"
    THEN Return(TRUE, data_url, {})
    ELSE IF cache
    THEN IF saved
         THEN Return(TRUE, <<"base_url", "/", "cache_key">>, {"cache_save"})
         ELSE Return(FALSE, <<"Failed to create thumbnail file ", "os error">>,
                     {"cache_save"})
    ELSE Return(TRUE, data_url, {})

\* run_pcli2_asset_thumbnail after run_pcli2_command(..).await? (pcli.rs 1235-1278)
thumbnail_after_run(arguments, cache, file, saved) ==
    IF file = "unreadable"
    THEN Return(FALSE, <<"Failed to read thumbnail output: ", "os error">>, {})
    ELSE IF file = "not_png"
    THEN Return(FALSE, <<"Thumbnail output was not a valid PNG file.">>, {})
    ELSE IF as_str(arguments.response_mode).some
            /\ as_str(arguments.response_mode).v = "data_url"
    THEN Return(TRUE, data_url, {})
    ELSE IF cache
    THEN IF saved
         THEN Return(TRUE, <<"base_url", "/", "cache_key">>, {"cache_save"})
         ELSE Return(FALSE, <<"Failed to create thumbnail file ", "os error">>,
                     {"cache_save"})
    ELSE Return(TRUE, data_url, {})

html(src) == <<"<img src=\"">> \o src \o <<"\" alt=\"Asset Thumbnail\">">>

call_tool_resume(tool, label, arguments, cache, run, file, saved) ==
    IF tool = "pcli2_geometric_match"
    THEN Return(run.ok, run.text, {})
    ELSE IF tool = "pcli2_asset_thumbnail"
    THEN IF ~run.ok THEN Return(FALSE, run.text, {})
         ELSE LET src == thumbnail_after_run(arguments, cache, file, saved)
              IN  IF src.ok THEN Return(TRUE, html(src.text), src.fx) ELSE src
    ELSE run_simple_tool(label, run)

content(text) == [kind |-> "content", text |-> text]

(***************************************************************************)
(* handle_mcp (mcp.rs 115-184), up to its response or to the await of a    *)
(* tool's subprocess.                                                      *)
(***************************************************************************)
NoSusp == [id |-> Absent, tool |-> "", label |-> "", arguments |-> NoArguments]

NoCall == [k |-> "none", ok |-> FALSE, text |-> <<>>]
NoRan == [label |-> "", outcome |-> NoOutcome, run |-> NoRun, file |-> NoFileRead,
          saved |-> FALSE]
Called(call) == [k |-> "returned", ok |-> call.ok, text |-> call.text]

Respond(response, arm, effects) ==
    [k |-> "respond", resp |-> response, dispatched |-> arm, fx |-> effects,
     susp |-> NoSusp, called |-> NoCall]

\* the message without the method name
not_found_message_bare(method) == <<"Method not found">>

\* format!("Method '{}' not found", method)
not_found_message(method) == <<"Method '", method, "' not found">>

\* a dispatcher failure reported as an internal error
tool_response_internal(id, call) ==
    IF call.ok THEN json_ok(id, content(call.text))
    ELSE json_error(id, -32603, call.text)

tool_response(id, call) ==
    IF call.ok THEN json_ok(id, content(call.text))
    ELSE json_error(id, -32602, call.text)

dispatch(id, method, params, cache, cleanup) ==
    IF method = "initialize"
    THEN Respond(json_ok(id, [kind |-> "initialize",
                              text |-> <<"2025-03-26", "server_name", "server_version">>]),
                 "initialize", {})
    ELSE IF method = "tools/list"
    THEN Respond(json_ok(id, [kind |-> "tools", text |-> <<"tool_list">>]),
                 "tools/list", {})
    ELSE IF method = "tools/call"
    THEN LET p == IF params.t = "absent" THEN EmptyParams ELSE params
             call == call_tool(p, cache, cleanup)
         IN  IF call.k = "await"
             THEN [k |-> "await", resp |-> NoResponse, dispatched |-> "tools/call",
                   fx |-> call.fx,
                   susp |-> [id |-> id, tool |-> call.tool, label |-> call.label,
                             arguments |-> call.arguments],
                   called |-> NoCall]
             ELSE [k |-> "respond", resp |-> tool_response(id, call),
                   dispatched |-> "tools/call", fx |-> call.fx, susp |-> NoSusp,
                   called |-> Called(call)]
    ELSE Respond(json_error(id, -32601, not_found_message(method)), "not_found", {})

handle_mcp(bytes, cache, cleanup) ==
    LET parsed == from_slice(bytes)
        rpcreq == parse_rpc_request(parsed.value)
        request == rpcreq.request
        id == id_or_null(request)
    IN  IF ~parsed.ok
        THEN Respond(json_error(JNull, -32700, <<"Parse error: invalid JSON">>), "none", {})
        ELSE IF ~rpcreq.ok
        THEN Respond(json_error(JNull, -32600, rpcreq.message), "none", {})
        ELSE IF wrong_version(request)
        THEN Respond(json_error(id, -32600,
                                <<"Invalid jsonrpc version '", request.jsonrpc.v, "'">>),
                     "none", {})
        ELSE IF request.method.t = "absent"
        THEN Respond(json_error(id, -32600, <<"Invalid Request: missing 'method'">>),
                     "none", {})
        ELSE IF is_null(id)
        THEN Respond(status_ok, "none", {})
        ELSE dispatch(id, request.method.v, request.params, cache, cleanup)

(***************************************************************************)
(* Actions of Spec.                                                        *)
(***************************************************************************)
NoBody == [wf |-> FALSE, value |-> NonObject]

\* A client posts `bytes`; the handler runs to its response or to the await.
Request ==
    /\ pc = "idle"
    /\ \E bytes \in Bodies, cleanup \in CleanupResults :
          LET h == handle_mcp(bytes, cacheAvail, cleanup)
          IN  /\ pc' = IF h.k = "await" THEN "awaiting" ELSE "done"
              /\ req' = bytes
              /\ resp' = h.resp
              /\ dispatched' = h.dispatched
              /\ fx' = h.fx
              /\ susp' = h.susp
              /\ called' = h.called
    /\ ran' = NoRan
    /\ UNCHANGED <<cacheAvail, cacheVars, runVars>>

\* The subprocess ends in `outcome`; run_pcli2_command returns to the
\* suspended tool call, which finishes.  Only the thumbnail tool reads an
\* output file and saves to the cache.
CommandReturns ==
    /\ pc = "awaiting"
    /\ \E outcome \in Outcomes,
          file \in IF susp.tool = "pcli2_asset_thumbnail" THEN FileResults
                   ELSE {NoFileRead},
          saved \in IF susp.tool = "pcli2_asset_thumbnail" THEN BOOLEAN ELSE {FALSE} :
          LET run == run_pcli2_command(susp.label, outcome)
              call == call_tool_resume(susp.tool, susp.label, susp.arguments,
                                       cacheAvail, run, file, saved)
          IN  /\ resp' = tool_response(susp.id, call)
              /\ fx' = fx \cup call.fx
              /\ called' = Called(call)
              /\ ran' = [label |-> susp.label, outcome |-> outcome, run |-> run,
                         file |-> file, saved |-> saved]
    /\ pc' = "done"
    /\ susp' = NoSusp
    /\ UNCHANGED <<req, dispatched, cacheAvail, cacheVars, runVars>>

\* The handler keeps nothing between requests.
NextRequest ==
    /\ pc = "done"
    /\ pc' = "idle"
    /\ req' = NoBody
    /\ resp' = NoResponse
    /\ dispatched' = "none"
    /\ fx' = {}
    /\ called' = NoCall
    /\ ran' = NoRan
    /\ UNCHANGED <<susp, cacheAvail, cacheVars, runVars>>

(***************************************************************************)
(* The thumbnail cache (src/src/thumbnail.rs).  The clock counts           *)
(* milliseconds, the unit of generate_cache_key and of cached_at.  A path  *)
(* is the directory it resolves to, a file stem and an extension; a cache  *)
(* key is the sequence of the components that '/' separates in it, so that *)
(* a generated key has one component and "../logo" has two.                *)
(***************************************************************************)
THUMBNAIL_EXTENSION == "png"
METADATA_EXTENSION == "meta"

\* config.cache_dir, config.base_url and config.ttl in milliseconds
cache_dir == <<"home", ".pcli2-mcp", "thumbnails">>
base_url == "http://host:port/thumbnail"
ttl_millis == 1

\* the clock stops here
MaxMillis == 2
\* cache operations in one behaviour
MaxOps == 3

Sources == {"a"}
Payloads == {"png1", "png2"}
Millis == 0..MaxMillis

\* file contents: the bytes of a payload, the JSON of a ThumbnailMetadata, or
\* a sidecar cut short that serde_json cannot parse
NoFile == [t |-> "none", bytes |-> "", cached_at |-> 0, source |-> ""]
Bytes(data) == [t |-> "bytes", bytes |-> data, cached_at |-> 0, source |-> ""]
ThumbnailMetadata(cached_at, source) ==
    [t |-> "meta", bytes |-> "", cached_at |-> cached_at, source |-> source]
Truncated == [t |-> "garbage", bytes |-> "", cached_at |-> 0, source |-> ""]

\* format!("{:016x}", hasher.finish()) of the source and the timestamp: equal
\* for equal inputs; taken to differ for different inputs
hash(source, timestamp) == source \o "-" \o ToString(timestamp)

\* generate_cache_key: `timestamp` is SystemTime::now() in milliseconds
generate_cache_key(source, timestamp) == <<hash(source, timestamp)>>

\* the directory the components of a relative path lead to from `dir`
RECURSIVE Resolve(_, _)
Resolve(dir, components) ==
    IF components = <<>> THEN dir
    ELSE IF Head(components) = ".."
    THEN Resolve(IF dir = <<>> THEN dir ELSE SubSeq(dir, 1, Len(dir) - 1),
                 Tail(components))
    ELSE Resolve(Append(dir, Head(components)), Tail(components))

\* cache_dir.push(format!("{}.{}", key, extension)), as the system resolves it
push(dir, key, extension) ==
    [dir |-> Resolve(dir, SubSeq(key, 1, Len(key) - 1)),
     stem |-> key[Len(key)],
     ext |-> extension]

cache_path(key) == push(cache_dir, key, THUMBNAIL_EXTENSION)

metadata_path(key) == push(cache_dir, key, METADATA_EXTENSION)

\* the keys save_thumbnail can generate, and a key a client can send in
\* GET /thumbnail/..%2Flogo
GeneratedKeys == {generate_cache_key(s, t) : s \in Sources, t \in Millis}
ClientKeys == {<<"..", "logo">>}
Keys == GeneratedKeys \cup ClientKeys

\* a file of somebody else next to the cache directory: ~/.pcli2-mcp/logo.png
OtherFile == [dir |-> <<"home", ".pcli2-mcp">>, stem |-> "logo", ext |-> "png"]
Paths ==
    {push(cache_dir, k, e) : k \in Keys,
                             e \in {THUMBNAIL_EXTENSION, METADATA_EXTENSION}}
Inside(path) == path.dir = cache_dir

InitDisk == [p \in Paths |-> IF p = OtherFile THEN Bytes("logo") ELSE NoFile]

exists(d, path) == d[path].t # "none"

\* is_expired: no sidecar, or one that does not parse, means expired;
\* otherwise the age is compared with the TTL
is_expired_at_ttl(d, t, key) ==
    LET meta_path == metadata_path(key)
    IN  IF ~exists(d, meta_path) THEN TRUE
        ELSE IF d[meta_path].t = "meta"
        THEN t - d[meta_path].cached_at >= ttl_millis
        ELSE TRUE

is_expired(d, t, key) ==
    LET meta_path == metadata_path(key)
    IN  IF ~exists(d, meta_path) THEN TRUE
        ELSE IF d[meta_path].t = "meta"
        THEN t - d[meta_path].cached_at > ttl_millis
        ELSE TRUE

remove_file(d, path) == [d EXCEPT ![path] = NoFile]

\* remove_thumbnail that fails on a file that is not there
remove_thumbnail_strict(d, key) ==
    [disk |-> remove_file(remove_file(d, cache_path(key)), metadata_path(key)),
     ok |-> exists(d, cache_path(key)) /\ exists(d, metadata_path(key))]

\* remove_thumbnail that removes the payload and leaves the sidecar
remove_thumbnail_payload(d, key) ==
    LET file_path == cache_path(key)
    IN  [disk |-> IF exists(d, file_path) THEN remove_file(d, file_path) ELSE d,
         ok |-> TRUE]

remove_thumbnail(d, key) ==
    LET file_path == cache_path(key)
        meta_path == metadata_path(key)
        d1 == IF exists(d, file_path) THEN remove_file(d, file_path) ELSE d
        d2 == IF exists(d1, meta_path) THEN remove_file(d1, meta_path) ELSE d1
    IN  [disk |-> d2, ok |-> TRUE]

NotFound == "Thumbnail not found: "
Expired == "Thumbnail expired and removed: "

\* load_thumbnail that leaves the files of an expired entry in place
load_thumbnail_keeping(d, t, key) ==
    LET file_path == cache_path(key)
    IN  IF ~exists(d, file_path)
        THEN [disk |-> d, ok |-> FALSE, err |-> NotFound, bytes |-> ""]
        ELSE IF is_expired(d, t, key)
        THEN [disk |-> d, ok |-> FALSE, err |-> Expired, bytes |-> ""]
        ELSE [disk |-> d, ok |-> TRUE, err |-> "", bytes |-> d[file_path].bytes]

\* load_thumbnail that stamps the sidecar with the time of the access
load_thumbnail_touching(d, t, key) ==
    LET file_path == cache_path(key)
        meta_path == metadata_path(key)
    IN  IF ~exists(d, file_path)
        THEN [disk |-> d, ok |-> FALSE, err |-> NotFound, bytes |-> ""]
        ELSE IF is_expired(d, t, key)
        THEN [disk |-> remove_thumbnail(d, key).disk, ok |-> FALSE, err |-> Expired,
              bytes |-> ""]
        ELSE [disk |-> [d EXCEPT ![meta_path] =
                                     ThumbnailMetadata(t, d[meta_path].source)],
              ok |-> TRUE, err |-> "", bytes |-> d[file_path].bytes]

load_thumbnail(d, t, key) ==
    LET file_path == cache_path(key)
    IN  IF ~exists(d, file_path)
        THEN [disk |-> d, ok |-> FALSE, err |-> NotFound, bytes |-> ""]
        ELSE IF is_expired(d, t, key)
        THEN [disk |-> remove_thumbnail(d, key).disk, ok |-> FALSE, err |-> Expired,
              bytes |-> ""]
        ELSE [disk |-> d, ok |-> TRUE, err |-> "", bytes |-> d[file_path].bytes]

\* the sidecar save_thumbnail writes; one stamped a TTL and more too early
sidecar_backdated(t, source) == ThumbnailMetadata(t - ttl_millis - 1, source)

sidecar(t, source) == ThumbnailMetadata(t, source)

\* save_thumbnail: the payload (File::create truncates), then the sidecar
write_payload(d, key, data) == [d EXCEPT ![cache_path(key)] = Bytes(data)]
write_sidecar(d, key, meta) == [d EXCEPT ![metadata_path(key)] = meta]

save_thumbnail(d, t, source, data) ==
    LET cache_key == generate_cache_key(source, t)
        d1 == write_payload(d, cache_key, data)
        d2 == write_sidecar(d1, cache_key, sidecar(t, source))
    IN  [disk |-> d2, key |-> cache_key,
         url |-> <<base_url, "/", cache_key[1]>>]

\* fs::read_dir(cache_dir): the keys of the *.png files in the directory
read_dir(d) ==
    {<<p.stem>> : p \in {q \in Paths : /\ Inside(q)
                                       /\ q.ext = THUMBNAIL_EXTENSION
                                       /\ exists(d, q)}}

\* cleanup_expired counting the entries it looked at
count_scanned(removed, expired) == removed + 1

\* `removed += 1` when the entry was expired and its removal succeeded
count_removed(removed, expired) == IF expired THEN removed + 1 ELSE removed

\* the loop of cleanup_expired over the entries still to visit
RECURSIVE cleanup_loop(_, _, _, _)
cleanup_loop(d, t, entries, removed) ==
    IF entries = {} THEN [disk |-> d, count |-> removed]
    ELSE LET cache_key == CHOOSE k \in entries : TRUE
             expired == is_expired(d, t, cache_key)
         IN  cleanup_loop(IF expired THEN remove_thumbnail(d, cache_key).disk ELSE d,
                          t, entries \ {cache_key},
                          count_removed(removed, expired))

cleanup_expired(d, t) == cleanup_loop(d, t, read_dir(d), 0)

\* what a cache operation returned, with the time it ran at
NoRet ==
    [op |-> "none", key |-> <<>>, ok |-> FALSE, err |-> "", bytes |-> "",
     url |-> <<>>, count |-> 0, status |-> 0, headers |-> {}, at |-> 0]

\* temp_thumbnail_path (pcli.rs 1449-1458): the name is made of the id of the
\* server's process and of the time in milliseconds
temp_thumbnail_path(pid, timestamp) ==
    <<"tmp", "pcli2-thumbnail-", pid, "-", ToString(timestamp), ".png">>
ServerPid == "pid"
TempPaths == {temp_thumbnail_path(ServerPid, t) : t \in Millis}
Assets == {"u1", "u2"}
\* the image pcli2 writes for an asset
ThumbnailOf(uuid) == Bytes("png of " \o uuid)

\* the threads that serve requests, and a thread that is in no operation
Threads == {"t1", "t2"}
NoThread ==
    [op |-> "none", at |-> "idle", key |-> <<>>, source |-> "", data |-> "",
     entries |-> {}, ok |-> FALSE, err |-> "", bytes |-> "", cached_at |-> 0,
     count |-> 0]

CacheIdle ==
    /\ millis = 0
    /\ disk = InitDisk
    /\ ret = NoRet
    /\ prev = NoRet
    /\ was = InitDisk
    /\ ops = 0
    /\ th = [t \in Threads |-> NoThread]
    /\ given = [k \in Keys |-> {}]
    /\ touched = {}
    /\ tmp = [p \in TempPaths |-> NoFile]

(***************************************************************************)
(* run_pcli2_command (pcli.rs 1592-1662) step by step, and the router's     *)
(* request timer (server.rs 69-88).  The clock counts units of 15 minutes,  *)
(* so that both timeouts of 30 minutes are 2; output is counted in units of *)
(* 100 MiB, so that the limit of 200 MiB is 2.                              *)
(***************************************************************************)
Streams == {"stdout", "stderr"}

PCLI2_TIMEOUT == 2
REQUEST_TIMEOUT == 2
MAX_PCLI2_OUTPUT_BYTES == 2

\* the clock stops here
MaxClock == 4
\* units a pipe holds before a write blocks
PipeCap == 1

RunIdle ==
    /\ rpc = "idle"
    /\ child = "none"
    /\ status = "none"
    /\ pipe = [s \in Streams |-> 0]
    /\ wopen = [s \in Streams |-> FALSE]
    /\ held = [s \in Streams |-> FALSE]
    /\ task = [s \in Streams |-> "none"]
    /\ buf = [s \in Streams |-> 0]
    /\ got = [s \in Streams |-> 0]
    /\ now = 0
    /\ procDeadline = -1
    /\ reqDeadline = -1
    /\ result = NoRun
    /\ seen = [s \in Streams |-> "none"]

RpcIdle ==
    /\ pc = "idle"
    /\ req = NoBody
    /\ resp = NoResponse
    /\ dispatched = "none"
    /\ fx = {}
    /\ susp = NoSusp
    /\ called = NoCall
    /\ ran = NoRan

Init ==
    /\ RpcIdle
    /\ cacheAvail \in BOOLEAN
    /\ RunIdle
    /\ CacheIdle

Next ==
    \/ Request
    \/ CommandReturns
    \/ NextRequest

Spec == Init /\ [][Next]_vars

(***************************************************************************)
(* The runner.                                                             *)
(***************************************************************************)
TheLabel == "pcli2 tenant list"
TheId == JNum("1")
\* {"jsonrpc":"2.0","id":1,"method":"tools/call","params":{"name":"pcli2_tenant_list"}}
TheRequest ==
    [wf |-> TRUE,
     value |-> [t |-> "object", jsonrpc |-> JStr("2.0"), id |-> TheId,
                method |-> JStr("tools/call"),
                params |-> [t |-> "object", name |-> JStr("pcli2_tenant_list"),
                            arguments |-> NoArguments]]]

\* inside tokio::time::timeout(PCLI2_TIMEOUT, async { .. })
InTimeout == rpc \in {"wait", "join_stdout", "join_stderr"}
\* a timeout that covers the two joins and not child.wait()
ProcTimerDue_joins == rpc \in {"join_stdout", "join_stderr"} /\ now >= procDeadline

ProcTimerDue == InTimeout /\ now >= procDeadline
\* the TimeoutLayer's timer runs until the request is answered
ReqTimerDue == reqDeadline # -1 /\ resp.status = 0 /\ now >= reqDeadline

\* a loop that buffers whatever arrives
read_limited_unbounded(len, read, limit) ==
    IF read = 0 THEN [state |-> "ok", len |-> len]
    ELSE [state |-> "reading", len |-> len + read]

\* a loop that refuses a buffer of exactly `limit` units
read_limited_below(len, read, limit) ==
    IF read = 0 THEN [state |-> "ok", len |-> len]
    ELSE IF len + read >= limit THEN [state |-> "overflow", len |-> len]
    ELSE [state |-> "reading", len |-> len + read]

\* one turn of the loop of read_limited: `read` units arrive with `len` buffered
read_limited(len, read, limit) ==
    IF read = 0 THEN [state |-> "ok", len |-> len]
    ELSE IF len + read > limit THEN [state |-> "overflow", len |-> len]
    ELSE [state |-> "reading", len |-> len + read]

\* Child::kill(): a running child is killed, one that has exited stays as it is
kill_skipped(c) == c

kill(c) == IF c = "running" THEN "killed" ELSE c

\* sequential draining: stderr is read only when stdout has been read to its end
CanDrain_sequential(s) ==
    /\ task[s] = "reading"
    /\ s = "stderr" => task["stdout"] # "reading"

\* the drain task of stream s, spawned on the runtime by tokio::spawn, runs
\* whatever the caller of run_pcli2_command is waiting for
CanDrain(s) == task[s] = "reading"

\* Command::spawn() and the two tokio::spawn(read_limited(..)) (pcli.rs 1599-1618)
Spawn ==
    \/ /\ rpc' = "returned"
       /\ result' = SpawnErr
       /\ seen' = task
       /\ UNCHANGED <<child, status, pipe, wopen, held, task, buf, got, procDeadline>>
    \/ /\ rpc' = "wait"
       /\ child' = "running"
       /\ wopen' = [s \in Streams |-> TRUE]
       /\ task' = [s \in Streams |-> "reading"]
       /\ procDeadline' = now + PCLI2_TIMEOUT
       /\ UNCHANGED <<status, pipe, held, buf, got, result, seen>>

\* run_pcli2_command called by itself, as the tests do
CallDirect ==
    /\ rpc = "idle"
    /\ Spawn
    /\ UNCHANGED <<rpcVars, cacheVars, now, reqDeadline>>

\* the child writes one unit to a stream whose pipe has room and a reader
ChildWrite ==
    /\ child = "running"
    /\ \E s \in Streams :
          /\ wopen[s]
          /\ task[s] = "reading"
          /\ pipe[s] < PipeCap
          /\ pipe' = [pipe EXCEPT ![s] = @ + 1]
    /\ UNCHANGED <<rpcVars, cacheVars, rpc, child, status, wopen, held, task, buf, got, now,
                   procDeadline, reqDeadline, result, seen>>

\* the child writes to a stream whose reader is gone and dies of SIGPIPE
\* (a child that ignores the signal just goes on)
ChildSigpipe ==
    /\ child = "running"
    /\ \E s \in Streams : wopen[s] /\ task[s] = "overflow"
    /\ child' = "exited"
    /\ status' = "failure"
    /\ wopen' = [s \in Streams |-> FALSE]
    /\ UNCHANGED <<rpcVars, cacheVars, rpc, pipe, held, task, buf, got, now, procDeadline,
                   reqDeadline, result, seen>>

\* the child exits; its ends of the pipes close
ChildExit ==
    /\ child = "running"
    /\ \E st \in {"success", "failure"} : status' = st
    /\ child' = "exited"
    /\ wopen' = [s \in Streams |-> FALSE]
    /\ UNCHANGED <<rpcVars, cacheVars, rpc, pipe, held, task, buf, got, now, procDeadline,
                   reqDeadline, result, seen>>

\* the child starts a process of its own, which inherits both pipes
ChildForks ==
    /\ child = "running"
    /\ held = [s \in Streams |-> FALSE]
    /\ held' = [s \in Streams |-> TRUE]
    /\ UNCHANGED <<rpcVars, cacheVars, rpc, child, status, pipe, wopen, task, buf, got, now,
                   procDeadline, reqDeadline, result, seen>>

\* that process closes its end of a stream
HolderCloses ==
    /\ \E s \in Streams : held[s] /\ held' = [held EXCEPT ![s] = FALSE]
    /\ UNCHANGED <<rpcVars, cacheVars, rpc, child, status, pipe, wopen, task, buf, got, now,
                   procDeadline, reqDeadline, result, seen>>

\* a drain task's reader.read(&mut chunk) returns: some units, or 0 at end of file
Drain ==
    /\ \E s \in Streams :
          /\ CanDrain(s)
          /\ \E read \in 0..pipe[s] :
                /\ read = 0 => (pipe[s] = 0 /\ ~wopen[s] /\ ~held[s])
                /\ LET r == read_limited(buf[s], read, MAX_PCLI2_OUTPUT_BYTES)
                   IN  /\ task' = [task EXCEPT ![s] = r.state]
                       /\ buf' = [buf EXCEPT ![s] = r.len]
                       /\ got' = [got EXCEPT ![s] = @ + read]
                       /\ pipe' = [pipe EXCEPT ![s] = @ - read]
    /\ UNCHANGED <<rpcVars, cacheVars, rpc, child, status, wopen, held, now, procDeadline,
                   reqDeadline, result, seen>>

\* child.wait().await returns
WaitReturns ==
    /\ rpc = "wait"
    /\ child = "exited"
    /\ rpc' = "join_stdout"
    /\ UNCHANGED <<rpcVars, cacheVars, child, status, pipe, wopen, held, task, buf, got, now,
                   procDeadline, reqDeadline, result, seen>>

\* stdout_task.await, then stderr_task.await; `??` returns the task's error, and
\* the caller kills the child (which has exited) and returns it
Join ==
    /\ \E s \in Streams :
          /\ rpc = IF s = "stdout" THEN "join_stdout" ELSE "join_stderr"
          /\ task[s] # "reading"
          /\ IF task[s] = "overflow"
             THEN /\ rpc' = "returned"
                  /\ result' = OverflowErr(s)
                  /\ seen' = task
             ELSE IF s = "stdout"
             THEN /\ rpc' = "join_stderr"
                  /\ UNCHANGED <<result, seen>>
             ELSE /\ rpc' = "returned"
                  /\ result' = command_output(TheLabel, status = "success",
                                              <<ToString(buf["stdout"])>>,
                                              <<ToString(buf["stderr"])>>)
                  /\ seen' = task
    /\ UNCHANGED <<rpcVars, cacheVars, child, status, pipe, wopen, held, task, buf, got, now,
                   procDeadline, reqDeadline>>

\* the timeout elapses first: child.kill().await and the timeout error
ProcTimeout ==
    /\ ProcTimerDue
    /\ child' = kill(child)
    /\ wopen' = [s \in Streams |-> IF child' = child THEN wopen[s] ELSE FALSE]
    /\ rpc' = "returned"
    /\ result' = TimeoutErr(TheLabel)
    /\ seen' = task
    /\ UNCHANGED <<rpcVars, cacheVars, status, pipe, held, task, buf, got, now, procDeadline,
                   reqDeadline>>

\* time passes, unless a timer is due; reading and parsing a body of at most
\* MAX_REQUEST_BYTES takes the handler less than one unit
Tick ==
    /\ now < MaxClock
    /\ rpc # "handler"
    /\ ~ProcTimerDue
    /\ ~ReqTimerDue
    /\ now' = now + 1
    /\ UNCHANGED <<rpcVars, cacheVars, rpc, child, status, pipe, wopen, held, task, buf, got,
                   procDeadline, reqDeadline, result, seen>>

NextRun ==
    \/ CallDirect
    \/ ChildWrite
    \/ ChildSigpipe
    \/ ChildExit
    \/ ChildForks
    \/ HolderCloses
    \/ Drain
    \/ WaitReturns
    \/ Join
    \/ ProcTimeout
    \/ Tick

InitRun ==
    /\ RpcIdle
    /\ cacheAvail = TRUE
    /\ RunIdle
    /\ CacheIdle

SpecRun == InitRun /\ [][NextRun]_vars

\* The runtime goes on: time passes, the timer of tokio::time::timeout fires
\* when it is due, and the caller's future is polled when the child or a
\* drain task it awaits has finished.  Nothing is assumed of the child, of
\* the process it forked, or of what the drain tasks are given to read.
SpecRunFair ==
    /\ SpecRun
    /\ WF_vars(Tick)
    /\ WF_vars(ProcTimeout)
    /\ WF_vars(WaitReturns)
    /\ WF_vars(Join)

(***************************************************************************)
(* A tools/call for pcli2_tenant_list served through the router.           *)
(***************************************************************************)
\* the HandleErrorLayer's answer to tower::timeout::error::Elapsed
request_timed_out ==
    [status |-> 408, members |-> {}, jsonrpc |-> "", id |-> Absent,
     result |-> NoResult, code |-> 0, message |-> <<"Request timed out">>]

\* the request reaches the router: the TimeoutLayer starts its timer, then the
\* body is read and handed to handle_mcp
Arrive ==
    /\ rpc = "idle"
    /\ rpc' = "handler"
    /\ reqDeadline' = now + REQUEST_TIMEOUT
    /\ req' = TheRequest
    /\ UNCHANGED <<pc, resp, dispatched, fx, susp, called, ran, cacheAvail, cacheVars,
                   child, status, pipe, wopen, held, task, buf, got, now, procDeadline,
                   result, seen>>

\* handle_mcp runs as far as run_pcli2_command, which spawns the child
CallFromHandler ==
    /\ rpc = "handler"
    /\ LET h == handle_mcp(req, cacheAvail, "ok")
       IN  /\ h.k = "await"
           /\ pc' = "awaiting"
           /\ dispatched' = h.dispatched
           /\ fx' = h.fx
           /\ susp' = h.susp
    /\ Spawn
    /\ UNCHANGED <<req, resp, called, ran, cacheAvail, cacheVars, now, reqDeadline>>

\* run_pcli2_command has returned: call_tool and handle_mcp finish
Respond200 ==
    /\ rpc = "returned"
    /\ resp.status = 0
    /\ LET call == call_tool_resume(susp.tool, susp.label, susp.arguments,
                                    cacheAvail, result, "png", TRUE)
       IN  /\ called' = Called(call)
           /\ resp' = tool_response(susp.id, call)
    /\ pc' = "done"
    /\ UNCHANGED <<req, dispatched, fx, susp, ran, cacheAvail, cacheVars, runVars>>

\* the request timer elapses: the router answers 408 and drops the handler's
\* future; the Child in it is dropped without kill_on_drop, the drain tasks
\* are detached
RouterTimeout ==
    /\ ReqTimerDue
    /\ resp' = request_timed_out
    /\ pc' = "done"
    /\ rpc' = "dropped"
    /\ UNCHANGED <<req, dispatched, fx, susp, called, ran, cacheAvail, cacheVars,
                   child, status, pipe, wopen, held, task, buf, got, now, procDeadline,
                   reqDeadline, result, seen>>

NextServe ==
    \/ Arrive
    \/ CallFromHandler
    \/ ChildWrite
    \/ ChildSigpipe
    \/ ChildExit
    \/ ChildForks
    \/ HolderCloses
    \/ Drain
    \/ WaitReturns
    \/ Join
    \/ ProcTimeout
    \/ Tick
    \/ Respond200
    \/ RouterTimeout

SpecServe == InitRun /\ [][NextServe]_vars

(***************************************************************************)
(* The cache used by one caller at a time: every operation runs to its end *)
(* before the next starts.  SaveInterrupted is a save_thumbnail that the   *)
(* end of the server process cuts off after the payload is written.        *)
(***************************************************************************)
\* a handler that answers 410 Gone for an expired entry
serve_thumbnail_gone(cache, d, t, key) ==
    IF ~cache
    THEN [disk |-> d, status |-> 503, headers |-> {},
          body |-> "Thumbnail cache not available"]
    ELSE LET loaded == load_thumbnail(d, t, key)
         IN  IF loaded.ok
             THEN [disk |-> loaded.disk, status |-> 200,
                   headers |-> {<<"content-type", "image/png">>,
                                <<"cache-control", "public, max-age=3600">>},
                   body |-> loaded.bytes]
             ELSE [disk |-> loaded.disk,
                   status |-> IF loaded.err = Expired THEN 410 ELSE 404,
                   headers |-> {},
                   body |-> "Thumbnail not found: " \o loaded.err]

\* the answer of serve_thumbnail (server.rs 114-146)
serve_thumbnail(cache, d, t, key) ==
    IF ~cache
    THEN [disk |-> d, status |-> 503, headers |-> {},
          body |-> "Thumbnail cache not available"]
    ELSE LET loaded == load_thumbnail(d, t, key)
         IN  IF loaded.ok
             THEN [disk |-> loaded.disk, status |-> 200,
                   headers |-> {<<"content-type", "image/png">>,
                                <<"cache-control", "public, max-age=3600">>},
                   body |-> loaded.bytes]
             ELSE [disk |-> loaded.disk, status |-> 404, headers |-> {},
                   body |-> "Thumbnail not found: " \o loaded.err]

\* an operation has run: its result, and the files it leaves
Completed(r, d) ==
    /\ ret' = [r EXCEPT !.at = millis]
    /\ prev' = ret
    /\ was' = disk
    /\ disk' = d
    /\ ops' = ops + 1
    /\ UNCHANGED <<millis, raceVars, rpcVars, runVars>>

Save ==
    /\ cacheAvail
    /\ ops < MaxOps
    /\ \E source \in Sources, data \in Payloads :
          LET saved == save_thumbnail(disk, millis, source, data)
          IN  Completed([NoRet EXCEPT !.op = "save", !.ok = TRUE, !.key = saved.key,
                                      !.url = saved.url, !.bytes = data],
                        saved.disk)

SaveInterrupted ==
    /\ cacheAvail
    /\ ops < MaxOps
    /\ \E source \in Sources, data \in Payloads, partial \in BOOLEAN :
          LET cache_key == generate_cache_key(source, millis)
              d1 == write_payload(disk, cache_key, data)
              d2 == IF partial THEN write_sidecar(d1, cache_key, Truncated) ELSE d1
          IN  Completed([NoRet EXCEPT !.op = "save_interrupted", !.key = cache_key,
                                      !.bytes = data],
                        d2)

Load ==
    /\ cacheAvail
    /\ ops < MaxOps
    /\ \E key \in Keys :
          LET loaded == load_thumbnail(disk, millis, key)
          IN  Completed([NoRet EXCEPT !.op = "load", !.key = key, !.ok = loaded.ok,
                                      !.err = loaded.err, !.bytes = loaded.bytes],
                        loaded.disk)

Remove ==
    /\ cacheAvail
    /\ ops < MaxOps
    /\ \E key \in Keys :
          LET removed == remove_thumbnail(disk, key)
          IN  Completed([NoRet EXCEPT !.op = "remove", !.key = key, !.ok = removed.ok],
                        removed.disk)

Cleanup ==
    /\ cacheAvail
    /\ ops < MaxOps
    /\ LET cleaned == cleanup_expired(disk, millis)
       IN  Completed([NoRet EXCEPT !.op = "cleanup", !.ok = TRUE,
                                   !.count = cleaned.count],
                     cleaned.disk)

\* GET /thumbnail/:cache_key
Serve ==
    /\ ops < MaxOps
    /\ \E key \in Keys :
          LET served == serve_thumbnail(cacheAvail, disk, millis, key)
          IN  Completed([NoRet EXCEPT !.op = "serve", !.key = key,
                                      !.ok = served.status = 200,
                                      !.status = served.status,
                                      !.headers = served.headers,
                                      !.bytes = served.body],
                        served.disk)

TickMillis ==
    /\ millis < MaxMillis
    /\ millis' = millis + 1
    /\ UNCHANGED <<disk, ret, prev, was, ops, raceVars, rpcVars, runVars>>

NextCache ==
    \/ Save
    \/ SaveInterrupted
    \/ Load
    \/ Remove
    \/ Cleanup
    \/ Serve
    \/ TickMillis

InitCache ==
    /\ RpcIdle
    /\ cacheAvail \in BOOLEAN
    /\ RunIdle
    /\ CacheIdle

SpecCache == InitCache /\ [][NextCache]_vars

(***************************************************************************)
(* The same cache used by requests that run at the same time: the state    *)
(* holds an Arc<Option<ThumbnailCache>> without a lock, and the handlers   *)
(* run on the threads of the runtime.  Every file-system call of           *)
(* save_thumbnail, load_thumbnail, remove_thumbnail and cleanup_expired is *)
(* a step of its thread.                                                   *)
(***************************************************************************)
\* File::create: an empty file, in place of the one that was there
create(d, path) == [d EXCEPT ![path] = Bytes("")]

Jump(t, at) == th' = [th EXCEPT ![t].at = at]
Returns(t, ok, err, bytes) ==
    th' = [th EXCEPT ![t].at = "returned", ![t].ok = ok, ![t].err = err,
                     ![t].bytes = bytes]
Begin(t, call) ==
    /\ cacheAvail
    /\ th[t].at = "idle"
    /\ ops < MaxOps
    /\ ops' = ops + 1
    /\ th' = [th EXCEPT ![t] = call]
RaceFrame == UNCHANGED <<millis, ret, prev, was, tmp, rpcVars, runVars>>

\* save_thumbnail: generate_cache_key (thumbnail.rs 124)
BeginSave(t) ==
    /\ \E source \in Sources, data \in Payloads :
          LET cache_key == generate_cache_key(source, millis)
          IN  /\ Begin(t, [NoThread EXCEPT !.op = "save", !.at = "create",
                                           !.key = cache_key, !.source = source,
                                           !.data = data])
              /\ given' = [given EXCEPT ![cache_key] = @ \cup {data}]
    /\ UNCHANGED <<disk, touched>>
    /\ RaceFrame

\* File::create(&file_path) (129)
SaveCreate(t) ==
    /\ th[t].op = "save" /\ th[t].at = "create"
    /\ disk' = create(disk, cache_path(th[t].key))
    /\ Jump(t, "write")
    /\ UNCHANGED <<ops, given, touched>>
    /\ RaceFrame

\* file.write_all(data) (131)
SaveWrite(t) ==
    /\ th[t].op = "save" /\ th[t].at = "write"
    /\ disk' = write_payload(disk, th[t].key, th[t].data)
    /\ Jump(t, "sidecar")
    /\ UNCHANGED <<ops, given, touched>>
    /\ RaceFrame

\* fs::write(&meta_path, ..) with cached_at = Utc::now(), and Ok (135-151)
SaveSidecar(t) ==
    /\ th[t].op = "save" /\ th[t].at = "sidecar"
    /\ disk' = write_sidecar(disk, th[t].key, sidecar(millis, th[t].source))
    /\ th' = [th EXCEPT ![t].at = "returned", ![t].ok = TRUE,
                        ![t].cached_at = millis]
    /\ UNCHANGED <<ops, given, touched>>
    /\ RaceFrame

\* load_thumbnail: file_path.exists() (161)
BeginLoad(t) ==
    /\ \E key \in Keys :
          /\ Begin(t, [NoThread EXCEPT
                          !.op = "load", !.key = key,
                          !.at = IF exists(disk, cache_path(key)) THEN "expiry"
                                 ELSE "returned",
                          !.err = IF exists(disk, cache_path(key)) THEN ""
                                  ELSE NotFound])
          /\ touched' = touched \cup {key}
    /\ UNCHANGED <<disk, given>>
    /\ RaceFrame

\* load_thumbnail: self.is_expired(cache_key) (166)
LoadExpiry(t) ==
    /\ th[t].op = "load" /\ th[t].at = "expiry"
    /\ Jump(t, IF is_expired(disk, millis, th[t].key) THEN "rm_payload" ELSE "read")
    /\ UNCHANGED <<disk, ops, given, touched>>
    /\ RaceFrame

\* load_thumbnail: File::open and read_to_end (173-182)
LoadRead(t) ==
    /\ th[t].op = "load" /\ th[t].at = "read"
    /\ IF exists(disk, cache_path(th[t].key))
       THEN Returns(t, TRUE, "", disk[cache_path(th[t].key)].bytes)
       ELSE Returns(t, FALSE, "Failed to open thumbnail file ", "")
    /\ UNCHANGED <<disk, ops, given, touched>>
    /\ RaceFrame

\* remove_thumbnail called by a request
BeginRemove(t) ==
    /\ \E key \in Keys :
          /\ Begin(t, [NoThread EXCEPT !.op = "remove", !.at = "rm_payload",
                                       !.key = key])
          /\ touched' = touched \cup {key}
    /\ UNCHANGED <<disk, given>>
    /\ RaceFrame

\* remove_thumbnail: the payload, if it exists (215-219)
RemovePayload(t) ==
    /\ th[t].at = "rm_payload"
    /\ disk' = IF exists(disk, cache_path(th[t].key))
               THEN remove_file(disk, cache_path(th[t].key)) ELSE disk
    /\ Jump(t, "rm_sidecar")
    /\ UNCHANGED <<ops, given, touched>>
    /\ RaceFrame

\* remove_thumbnail: the sidecar, if it exists (220-224); then its caller goes on
RemoveSidecar(t) ==
    /\ th[t].at = "rm_sidecar"
    /\ disk' = IF exists(disk, metadata_path(th[t].key))
               THEN remove_file(disk, metadata_path(th[t].key)) ELSE disk
    /\ CASE th[t].op = "load" -> Returns(t, FALSE, Expired, "")
         [] th[t].op = "remove" -> Returns(t, TRUE, "", "")
         [] OTHER -> th' = [th EXCEPT ![t].at = "scan",
                                      ![t].count = count_removed(@, TRUE)]
    /\ UNCHANGED <<ops, given, touched>>
    /\ RaceFrame

\* cleanup_expired: fs::read_dir (236)
BeginCleanup(t) ==
    /\ Begin(t, [NoThread EXCEPT !.op = "cleanup", !.at = "scan",
                                 !.entries = read_dir(disk)])
    /\ UNCHANGED <<disk, given, touched>>
    /\ RaceFrame

\* cleanup_expired: the next entry and its is_expired test, or Ok(removed)
CleanupScan(t) ==
    /\ th[t].op = "cleanup" /\ th[t].at = "scan"
    /\ IF th[t].entries = {}
       THEN Returns(t, TRUE, "", "")
       ELSE LET cache_key == CHOOSE k \in th[t].entries : TRUE
            IN  th' = [th EXCEPT
                         ![t].entries = @ \ {cache_key},
                         ![t].key = cache_key,
                         ![t].at = IF is_expired(disk, millis, cache_key)
                                   THEN "rm_payload" ELSE "scan"]
    /\ UNCHANGED <<disk, ops, given, touched>>
    /\ RaceFrame

\* the request is answered; its thread takes another
Finish(t) ==
    /\ th[t].at = "returned"
    /\ th' = [th EXCEPT ![t] = NoThread]
    /\ UNCHANGED <<disk, ops, given, touched>>
    /\ RaceFrame

NextRace ==
    \/ \E t \in Threads :
          \/ BeginSave(t) \/ SaveCreate(t) \/ SaveWrite(t) \/ SaveSidecar(t)
          \/ BeginLoad(t) \/ LoadExpiry(t) \/ LoadRead(t)
          \/ BeginRemove(t) \/ RemovePayload(t) \/ RemoveSidecar(t)
          \/ BeginCleanup(t) \/ CleanupScan(t)
          \/ Finish(t)
    \/ TickMillis

InitRace ==
    /\ RpcIdle
    /\ cacheAvail = TRUE
    /\ RunIdle
    /\ CacheIdle

SpecRace == InitRace /\ [][NextRace]_vars

(***************************************************************************)
(* Thumbnail calls in flight at the same time (run_pcli2_asset_thumbnail,  *)
(* pcli.rs 1216-1241): each makes a path in the temporary directory, has   *)
(* pcli2 write the image there, reads the file and removes it.             *)
(***************************************************************************)
TempFrame == UNCHANGED <<millis, disk, ret, prev, was, given, touched, rpcVars, runVars>>

\* temp_thumbnail_path()? and the spawn of pcli2 with --file (1228-1233)
BeginThumbnail(t) ==
    /\ th[t].at = "idle"
    /\ ops < MaxOps
    /\ ops' = ops + 1
    /\ \E uuid \in Assets :
          th' = [th EXCEPT ![t] = [NoThread EXCEPT
                                     !.op = "thumbnail", !.at = "run",
                                     !.source = uuid,
                                     !.key = temp_thumbnail_path(ServerPid, millis)]]
    /\ UNCHANGED tmp
    /\ TempFrame

\* pcli2 writes the thumbnail of the asset to the file and exits
Pcli2Writes(t) ==
    /\ th[t].op = "thumbnail" /\ th[t].at = "run"
    /\ tmp' = [tmp EXCEPT ![th[t].key] = ThumbnailOf(th[t].source)]
    /\ Jump(t, "read")
    /\ UNCHANGED ops
    /\ TempFrame

\* pcli2 fails: run_pcli2_command(..).await? returns its error
Pcli2Fails(t) ==
    /\ th[t].op = "thumbnail" /\ th[t].at = "run"
    /\ Returns(t, FALSE, "pcli2 asset thumbnail failed", "")
    /\ UNCHANGED <<ops, tmp>>
    /\ TempFrame

\* fs::read(&temp_path) (1235-1236)
ReadOutput(t) ==
    /\ th[t].op = "thumbnail" /\ th[t].at = "read"
    /\ th' = [th EXCEPT ![t].at = "remove",
                        ![t].ok = tmp[th[t].key] # NoFile,
                        ![t].err = IF tmp[th[t].key] # NoFile THEN ""
                                   ELSE "Failed to read thumbnail output: ",
                        ![t].bytes = tmp[th[t].key].bytes]
    /\ UNCHANGED <<ops, tmp>>
    /\ TempFrame

\* let _ = fs::remove_file(&temp_path), then bytes_result? (1237-1238)
RemoveOutput(t) ==
    /\ th[t].op = "thumbnail" /\ th[t].at = "remove"
    /\ tmp' = [tmp EXCEPT ![th[t].key] = NoFile]
    /\ Jump(t, "returned")
    /\ UNCHANGED ops
    /\ TempFrame

NextTemp ==
    \/ \E t \in Threads :
          \/ BeginThumbnail(t) \/ Pcli2Writes(t) \/ Pcli2Fails(t)
          \/ ReadOutput(t) \/ RemoveOutput(t)
          \/ Finish(t)
    \/ TickMillis

InitTemp ==
    /\ RpcIdle
    /\ cacheAvail \in BOOLEAN
    /\ RunIdle
    /\ CacheIdle

SpecTemp == InitTemp /\ [][NextTemp]_vars

(***************************************************************************)
(* Properties of handle_mcp, checked under Spec.                           *)
(***************************************************************************)
Done == pc = "done"
Sent == req.value
IsObject == req.wf /\ Sent.t = "object"
HasBody == resp.members # {}
NoId == Sent.id.t \in {"absent", "null"}
IsError(code) == resp.members = {"jsonrpc", "id", "error"} /\ resp.code = code
\* the request passes parse_rpc_request, the version test and the method test
WellShaped ==
    /\ IsObject
    /\ Sent.jsonrpc \in {Absent, JStr("2.0")}
    /\ Sent.method.t = "string"
KnownMethods == {"initialize", "tools/list", "tools/call"}
Contains(message, part) == \E i \in 1..Len(message) : message[i] = part

\* C1 as stated: every JSON-object request whose id is absent or null gets an
\* empty response body, whatever its method and jsonrpc members are.
C1_EmptyBodyWhateverTheRequest ==
    (Done /\ IsObject /\ NoId) => ~HasBody

\* C1 amended: a JSON-object request whose id is absent or null gets an empty
\* body when its jsonrpc is absent or "2.0" and its method is a string (known
\* or not); otherwise it gets the -32600 error envelope with id null.
C1_NotificationOfWellShapedRequest ==
    (Done /\ IsObject /\ NoId) =>
        IF WellShaped THEN ~HasBody /\ resp.status = 200
        ELSE IsError(-32600) /\ resp.id = JNull

C1_Witness ==
    /\ Done /\ IsObject /\ WellShaped
    /\ Sent.id = Absent
    /\ Sent.method = JStr("resources/list")
    /\ ~HasBody

\* C2: every response with a body, to a JSON-object request with a non-null
\* id, carries jsonrpc "2.0" and the id of the request, also when the request
\* is rejected because jsonrpc or method is not a string.
C2_BodyCarriesRequestId ==
    (Done /\ IsObject /\ ~NoId /\ HasBody) =>
        resp.jsonrpc = "2.0" /\ resp.id = Sent.id

\* C3: a body that is not well-formed JSON is answered with the error
\* envelope of code -32700 and id null.
C3_ParseError ==
    (Done /\ ~req.wf) => IsError(-32700) /\ resp.id = JNull /\ resp.jsonrpc = "2.0"

C3_Witness ==
    /\ Done /\ ~req.wf
    /\ Sent.id = JNum("1")
    /\ resp.code = -32700
    /\ resp.id = JNull

\* C4: a JSON-object request whose jsonrpc member is present and is not the
\* string "2.0" is answered with -32600, whatever its method and params, and
\* nothing is dispatched or run for it.
C4_WrongVersion ==
    (pc # "idle" /\ IsObject /\ Sent.jsonrpc \notin {Absent, JStr("2.0")}) =>
        /\ Done
        /\ IsError(-32600)
        /\ dispatched = "none"
        /\ fx = {}

C4_Witness ==
    /\ Done /\ IsObject
    /\ Sent.jsonrpc = JStr("1.0")
    /\ Sent.id = JNum("1")
    /\ Sent.method = JStr("tools/call")
    /\ Sent.params.name = JStr("pcli2_tenant_list")
    /\ IsError(-32600)

\* C5: the response to a request with a present, non-null id has exactly one
\* of the members result and error.
C5_ExactlyOneOfResultAndError ==
    (Done /\ IsObject /\ ~NoId) =>
        ("result" \in resp.members) # ("error" \in resp.members)

C5_Witness ==
    /\ Done /\ IsObject /\ ~NoId
    /\ called.k = "returned" /\ ~called.ok
    /\ "error" \in resp.members
    /\ "result" \notin resp.members

\* C6: a request that is not a JSON object, or has no method, or whose method
\* or jsonrpc member is not a string, is answered with -32600 and is never
\* dispatched to initialize, tools/list or tools/call.
Malshaped ==
    /\ req.wf
    /\ \/ Sent.t # "object"
       \/ Sent.method.t # "string"
       \/ Sent.jsonrpc.t \notin {"absent", "string"}

C6_InvalidRequest ==
    (pc # "idle" /\ Malshaped) =>
        /\ Done
        /\ IsError(-32600)
        /\ dispatched = "none"
        /\ fx = {}

C6_Witness ==
    /\ Done /\ IsObject
    /\ Sent.jsonrpc = JNum("2")
    /\ Sent.method = JStr("tools/call")
    /\ Sent.id = JStr("a")
    /\ IsError(-32600)

\* C7: a valid request with a non-null id and a method other than initialize,
\* tools/list and tools/call is answered with -32601 and a message that contains
\* the method name, and no tool is run.
C7_MethodNotFound ==
    (pc # "idle" /\ WellShaped /\ ~NoId /\ Sent.method.v \notin KnownMethods) =>
        /\ Done
        /\ IsError(-32601)
        /\ Contains(resp.message, Sent.method.v)
        /\ resp.id = Sent.id
        /\ fx = {}
        /\ called = NoCall

C7_Witness ==
    /\ Done /\ WellShaped /\ ~NoId
    /\ Sent.method = JStr("resources/list")
    /\ resp.code = -32601

\* C8: when call_tool fails for a tools/call request with a non-null id, the
\* response is the error of code -32602 with the dispatcher's message and the
\* request id; when it succeeds, the response is the result envelope around the
\* dispatcher's content value.
C8_ToolOutcome ==
    (Done /\ dispatched = "tools/call") =>
        /\ called.k = "returned"
        /\ resp.id = Sent.id
        /\ resp.jsonrpc = "2.0"
        /\ IF called.ok
           THEN /\ resp.members = {"jsonrpc", "id", "result"}
                /\ resp.result = [kind |-> "content", text |-> called.text]
           ELSE /\ IsError(-32602)
                /\ resp.message = called.text

C8_Witness ==
    /\ Done /\ dispatched = "tools/call"
    /\ ~called.ok
    /\ called.text = TimeoutErr("pcli2 asset geometric-match").text
    /\ IsError(-32602)

(***************************************************************************)
(* Properties of the router and of run_pcli2_command.                      *)
(***************************************************************************)
Answered == resp.status # 0

\* C9 (checked under SpecServe): once a tools/call served through the router
\* is answered, no child is left running; and when the child has run past the
\* subprocess timeout without exiting, it has been killed and the client has
\* the timeout as the JSON-RPC error -32602, not as an HTTP error.
C9_TimeoutReachesClientAsRpcError ==
    /\ Answered => child # "running"
    /\ (Answered /\ procDeadline # -1 /\ now >= procDeadline /\ child # "exited") =>
          /\ child = "killed"
          /\ resp.status = 200
          /\ IsError(-32602)
          /\ resp.id = TheId
          /\ resp.message = <<TheLabel, " failed: ">> \o TimeoutErr(TheLabel).text

\* C10 (checked under SpecRun): when a drain task has found its stream over the
\* limit, run_pcli2_command returns the overflow error naming such a stream and
\* the child is not running when it returns, whatever the child does afterwards.
C10_OverflowReturnedAndChildKilled ==
    (rpc = "returned" /\ \E s \in Streams : seen[s] = "overflow") =>
        /\ \E s \in Streams : seen[s] = "overflow" /\ result = OverflowErr(s)
        /\ child # "running"

\* C11 (checked under SpecRun): the call never stays inside the timed operation
\* past its deadline; a call that returns the timeout error returns
\* "<label> failed: timed out after .." at or after the deadline, having killed
\* a child that was still running; and whenever the call has returned, the
\* child is not running.
C11_TimeoutKillsAndReturns ==
    /\ InTimeout => now <= procDeadline
    /\ rpc = "returned" => child # "running"
    /\ (rpc = "returned" /\ result.kind = "timeout") =>
          /\ result = TimeoutErr(TheLabel)
          /\ result.text[1] = TheLabel
          /\ result.text[2] = " failed: timed out after "
          /\ ~result.ok
          /\ now >= procDeadline
          /\ child \in {"killed", "exited"}
    /\ (rpc = "returned" /\ child = "killed") => result = TimeoutErr(TheLabel)

C11_Witness ==
    /\ rpc = "returned"
    /\ result = TimeoutErr(TheLabel)
    /\ child = "killed"
    /\ seen["stdout"] = "reading"
    /\ now = procDeadline

\* a Drain step of stream s is enabled
DrainEnabled(s) == CanDrain(s) /\ (pipe[s] > 0 \/ (~wopen[s] /\ ~held[s]))
\* a step of the caller is enabled
CallerEnabled ==
    \/ rpc = "wait" /\ child = "exited"
    \/ rpc = "join_stdout" /\ task["stdout"] # "reading"
    \/ rpc = "join_stderr" /\ task["stderr"] # "reading"
WithinLimit == \A s \in Streams : task[s] # "overflow"
NoHolder == \A s \in Streams : ~held[s]

\* C12 (checked under SpecRun): while the output stays within the limit and
\* only the child holds the pipes, the call cannot deadlock: a child that
\* finds a pipe full, whichever of the two, has a drain task ready to make room
\* in it wherever the caller waits, and once the child has exited a step of a
\* drain task or of the caller is enabled until the call has returned, so that
\* completion does not need the clock to advance.
C12_NoDeadlock ==
    (InTimeout /\ WithinLimit /\ NoHolder) =>
        /\ \A s \in Streams :
              (child = "running" /\ wopen[s] /\ pipe[s] = PipeCap) => DrainEnabled(s)
        /\ \A s \in Streams : (child = "running" /\ wopen[s]) => CanDrain(s)
        /\ child = "exited" => (CallerEnabled \/ \E s \in Streams : DrainEnabled(s))

C12_Witness ==
    /\ rpc = "returned"
    /\ result.kind = "success"
    /\ buf = [s \in Streams |-> MAX_PCLI2_OUTPUT_BYTES]
    /\ now = 0

(***************************************************************************)
(* Properties of the thumbnail cache, checked under SpecCache.             *)
(***************************************************************************)
PayloadOf(key) == cache_path(key)
SidecarOf(key) == metadata_path(key)
Gone(d, key) == ~exists(d, PayloadOf(key)) /\ ~exists(d, SidecarOf(key))
\* every file but the two of `key` is as it was before the last operation
OthersUntouched(key) ==
    \A p \in Paths : p \notin {PayloadOf(key), SidecarOf(key)} => disk[p] = was[p]
\* the sidecar of `key` in d is readable and at most a TTL old at time t
Fresh(d, t, key) ==
    /\ d[SidecarOf(key)].t = "meta"
    /\ t - d[SidecarOf(key)].cached_at <= ttl_millis

\* C13: a save_thumbnail never returns the key of an earlier save and never
\* writes over the payload or the sidecar of an entry that exists, also when
\* two saves for the same source follow each other at once.
C13_SaveNeverReusesKey ==
    /\ (ret.op = "save" /\ prev.op = "save") => ret.key # prev.key
    /\ ret.op = "save" => Gone(was, ret.key)

\* C14: a load_thumbnail that follows a successful save_thumbnail of the same
\* key as the next operation, not later than the TTL, returns the bytes given
\* to the save; and the URL a save returns is base_url, "/" and the key.
C14_SaveThenLoad ==
    /\ (ret.op = "save" /\ ret.ok) =>
          /\ Len(ret.key) = 1
          /\ ret.url = <<base_url, "/", ret.key[1]>>
          /\ disk[PayloadOf(ret.key)] = Bytes(ret.bytes)
    /\ (ret.op = "load" /\ prev.op = "save" /\ prev.ok /\ ret.key = prev.key
            /\ ret.at - prev.at <= ttl_millis) =>
          /\ ret.ok
          /\ ret.bytes = prev.bytes
          /\ ret.bytes \in Payloads

C14_Witness ==
    /\ ret.op = "load" /\ prev.op = "save"
    /\ ret.key = prev.key
    /\ ret.at = prev.at
    /\ ret.ok
    /\ ret.bytes = "png2"

C16_CleanupExact ==
    ret.op = "cleanup" =>
        LET entries == read_dir(was)
            expired == {k \in entries : ~Fresh(was, ret.at, k)}
        IN  /\ \A k \in expired : Gone(disk, k)
            /\ \A p \in Paths :
                  (\A k \in expired : p \notin {PayloadOf(k), SidecarOf(k)}) =>
                      disk[p] = was[p]
            /\ ret.ok
            /\ ret.count = Cardinality(expired)

C16_Witness ==
    /\ ret.op = "cleanup"
    /\ ret.count = 1
    /\ \E k \in read_dir(was) : Fresh(was, ret.at, k) /\ exists(disk, PayloadOf(k))
    /\ \E k \in read_dir(was) : was[SidecarOf(k)].t = "meta" /\ Gone(disk, k)

\* C17: remove_thumbnail of a key whose files are gone returns Ok and changes
\* nothing, and a remove_thumbnail never changes a file of another key.
C17_RemoveIdempotent ==
    ret.op = "remove" =>
        /\ ret.ok
        /\ Gone(disk, ret.key)
        /\ OthersUntouched(ret.key)
        /\ Gone(was, ret.key) => disk = was

C17_Witness ==
    /\ ret.op = "remove" /\ prev.op = "remove"
    /\ ret.key = prev.key
    /\ ret.key \in GeneratedKeys
    /\ ret.ok /\ prev.ok
    /\ disk = was
    /\ \E k \in GeneratedKeys : k # ret.key /\ exists(disk, PayloadOf(k))

\* C18: a load_thumbnail that reports the entry expired leaves neither of its
\* files; the next load_thumbnail of the key reports not found, and the next
\* cleanup_expired does not find the entry (it returns 0 when there is no other).
C18_ExpiredLoadRemoves ==
    /\ (ret.op = "load" /\ ret.err = Expired) => Gone(disk, ret.key)
    /\ (prev.op = "load" /\ prev.err = Expired) =>
          /\ (ret.op = "load" /\ ret.key = prev.key) =>
                ~ret.ok /\ ret.err = NotFound
          /\ ret.op = "cleanup" =>
                /\ \A k \in read_dir(was) : PayloadOf(k) # PayloadOf(prev.key)
                /\ ret.count = Cardinality({k \in read_dir(was) :
                                               ~Fresh(was, ret.at, k)})
                /\ read_dir(was) = {} => ret.count = 0

C18_Witness ==
    /\ prev.op = "load" /\ prev.err = Expired
    /\ prev.key \in GeneratedKeys
    /\ ret.op = "cleanup"
    /\ ret.count = 0
    /\ read_dir(was) = {}

\* C19: whatever key load_thumbnail, remove_thumbnail or GET /thumbnail/:key
\* is given, the files it looks at lie in the cache directory and no file
\* outside the cache directory is removed or changed.
C19_StaysInCacheDir ==
    /\ \A p \in Paths : ~Inside(p) => disk[p] = InitDisk[p]
    /\ ret.op \in {"load", "remove", "serve"} =>
          Inside(PayloadOf(ret.key)) /\ Inside(SidecarOf(ret.key))

SentArguments ==
    IF Sent.params.t = "object" /\ Sent.params.arguments.t = "object"
    THEN Sent.params.arguments ELSE EmptyArguments
SentTool == IF Sent.params.t = "object" THEN as_str(Sent.params.name).v ELSE ""
ToolCallDone == Done /\ dispatched = "tools/call" /\ called.k = "returned"
\* a thumbnail call whose subprocess succeeded and left a PNG file
ValidPng ==
    /\ ToolCallDone
    /\ SentTool = "pcli2_asset_thumbnail"
    /\ ran.run.ok
    /\ ran.file = "png"
Mode == IF as_str(SentArguments.response_mode).some
        THEN as_str(SentArguments.response_mode).v ELSE "url"
ReturnsDataUrl == called.ok /\ called.text = html(data_url) /\ "cache_save" \notin fx
ReturnsUrl ==
    /\ called.ok
    /\ called.text = html(<<"base_url", "/", "cache_key">>)
    /\ "cache_save" \in fx

\* C21 as stated: with a valid PNG output, response_mode data_url returns the
\* data URI; response_mode url with an available cache saves the bytes and
\* returns the retrieval URL; the tool returns the data URI when the cache is
\* unavailable or when response_mode is an unrecognized value.
C21_FallbackOnUnrecognizedMode ==
    ValidPng =>
        /\ (Mode = "data_url") => ReturnsDataUrl
        /\ (Mode = "url" /\ cacheAvail /\ ran.saved) => ReturnsUrl
        /\ (~cacheAvail \/ Mode \notin {"url", "data_url"}) => ReturnsDataUrl

\* C21, amended: with a valid PNG output, response_mode data_url returns the
\* data URI; any other response_mode (url, absent or unrecognized) saves the
\* bytes in an available cache and returns the retrieval URL; the data URI is
\* the fallback only when the cache is unavailable.
C21_UnrecognizedModeIsUrl ==
    ValidPng =>
        /\ (Mode = "data_url") => ReturnsDataUrl
        /\ (Mode # "data_url" /\ cacheAvail /\ ran.saved) => ReturnsUrl
        /\ (Mode # "data_url" /\ cacheAvail /\ ~ran.saved) =>
               (~called.ok /\ "cache_save" \in fx)
        /\ ~cacheAvail => ReturnsDataUrl

C21_Witness ==
    /\ ValidPng
    /\ Mode = "inline"
    /\ cacheAvail /\ ran.saved
    /\ ReturnsUrl

\* the tools whose result is the text the subprocess printed
TextTools == ToolNames \ {"pcli2_asset_thumbnail", "pcli2_thumbnail_cache_cleanup"}
\* `out` is `text` without its trailing white space
TrimmedOf(text, out) ==
    /\ Len(out) <= Len(text)
    /\ out = SubSeq(text, 1, Len(out))
    /\ \A i \in (Len(out) + 1)..Len(text) : text[i] \in Whitespace
    /\ out # <<>> => out[Len(out)] \notin Whitespace
Words(text) == {text[i] : i \in 1..Len(text)} \ Whitespace
Exited == ran.outcome.kind = "exit"

\* C22: when the subprocess exits with success status, a tools/call for a
\* text tool yields the success envelope whose content text is the
\* subprocess's stdout (decoded as UTF-8) with trailing white space removed;
\* nothing of stderr is in the result.
C22_SuccessIsTrimmedStdout ==
    (ToolCallDone /\ SentTool \in TextTools /\ Exited /\ ran.outcome.success) =>
        /\ resp.members = {"jsonrpc", "id", "result"}
        /\ resp.id = Sent.id
        /\ resp.result.kind = "content"
        /\ TrimmedOf(from_utf8_lossy(ran.outcome.stdout), resp.result.text)
        /\ Words(ran.outcome.stderr) \cap Words(resp.result.text) = {}

C22_Witness ==
    /\ ToolCallDone /\ SentTool = "pcli2_tenant_list" /\ SentArguments = EmptyArguments
    /\ Exited /\ ran.outcome.success
    /\ ran.outcome.stdout = <<"tenant list ok", "\n">>
    /\ ran.outcome.stderr = <<"unknown args", "\n">>
    /\ resp.result = [kind |-> "content", text |-> <<"tenant list ok">>]

\* C23: when the subprocess exits with a non-zero status, run_pcli2_command
\* returns an error made of the label and "failed", the exit status, the
\* captured stdout and the captured stderr (each without trailing white
\* space); neither stream is left out.
C23_FailureCarriesBothStreams ==
    (pc = "done" /\ Exited /\ ~ran.outcome.success) =>
        LET text == ran.run.text
            out == SubSeq(text, 5, Len(text))
        IN  /\ ~ran.run.ok
            /\ Len(text) >= 5
            /\ SubSeq(text, 1, 4) = <<ran.label, " failed (code ", "exit status: 1", "):\n">>
            /\ \E n \in 0..Len(out) - 1 :
                  /\ out[n + 1] = "\n"
                  /\ TrimmedOf(from_utf8_lossy(ran.outcome.stdout), SubSeq(out, 1, n))
                  /\ TrimmedOf(from_utf8_lossy(ran.outcome.stderr),
                               SubSeq(out, n + 2, Len(out)))
            /\ ~called.ok
            /\ Words(ran.outcome.stdout) \ {InvalidUtf8} \subseteq Words(called.text)
            /\ Words(ran.outcome.stderr) \subseteq Words(called.text)

C23_Witness ==
    /\ pc = "done" /\ Exited /\ ~ran.outcome.success
    /\ ran.outcome.stdout = <<"tenant list ok", "\n">>
    /\ ran.outcome.stderr = <<"unknown args", "\n">>
    /\ ran.run.text = <<"pcli2 tenant list", " failed (code ", "exit status: 1", "):\n",
                        "tenant list ok", "\n", "unknown args">>

\* a tools/call that reached call_tool
ToolCall ==
    /\ WellShaped /\ ~NoId
    /\ Sent.method = JStr("tools/call")
SentName == IF Sent.params.t = "object" THEN as_str(Sent.params.name)
            ELSE [some |-> FALSE, v |-> ""]

\* C24: a tools/call whose name is not a registered tool fails with the
\* message "Unknown tool '<name>'", and one without a name (or whose name is
\* not a string) with "Missing tool name"; in both cases no subprocess is
\* spawned and the cache is not touched.
C24_UnknownOrMissingName ==
    (pc # "idle" /\ ToolCall /\ (~SentName.some \/ SentName.v \notin ToolNames)) =>
        /\ Done
        /\ called.k = "returned" /\ ~called.ok
        /\ called.text = IF SentName.some THEN <<"Unknown tool '", SentName.v, "'">>
                         ELSE <<"Missing tool name">>
        /\ resp.message = called.text
        /\ fx = {}
        /\ ran = NoRan

C24_Witness ==
    /\ Done /\ ToolCall
    /\ Sent.params.name = JStr("nope")
    /\ resp.message = <<"Unknown tool '", "nope", "'">>
    /\ fx = {}

ThresholdTools == {"pcli2_geometric_match", "pcli2_asset_part_match",
                   "pcli2_folder_geometric_match", "pcli2_folder_part_match"}
FolderMatchTools == {"pcli2_folder_geometric_match", "pcli2_folder_part_match"}
ThresholdCall == ToolCall /\ SentName.some /\ SentName.v \in ThresholdTools
ThresholdOutOfRange ==
    /\ SentArguments.threshold.t = "number"
    /\ (SentArguments.threshold.n < 0 \/ SentArguments.threshold.n > 100)
\* the other arguments of a threshold tool pass its checks
OtherArgumentsPass ==
    IF SentName.v \in FolderMatchTools
    THEN /\ SentArguments.folder_path.t = "string"
         /\ ~(SentArguments.concurrent.t = "number"
              /\ (SentArguments.concurrent.n = 0 \/ SentArguments.concurrent.n > 10))
    ELSE SentArguments.uuid.t = "string" \/ SentArguments.path.t = "string"
SaysBetween(message, key, min, max) ==
    /\ Contains(message, key)
    /\ \E i \in 1..Len(message) - 3 :
          SubSeq(message, i, i + 3) = <<" must be between ", min, " and ", max>>

\* C25: for every tool that takes a threshold, a numeric threshold outside
\* [0, 100] yields the -32602 error whose message says the value must be
\* between 0 and 100, and no subprocess is spawned; a threshold in the range,
\* or none, passes validation: the call is not refused for its threshold, and
\* it runs the subprocess when its other arguments pass.
C25_ThresholdRange ==
    (pc # "idle" /\ ThresholdCall) =>
        IF ThresholdOutOfRange
        THEN /\ Done
             /\ IsError(-32602)
             /\ SaysBetween(resp.message, "threshold", "0", "100")
             /\ "spawn" \notin fx
             /\ ran = NoRan
        ELSE /\ ~SaysBetween(resp.message, "threshold", "0", "100")
             /\ OtherArgumentsPass => "spawn" \in fx

C25_Witness ==
    /\ Done /\ ThresholdCall
    /\ SentName.v = "pcli2_folder_part_match"
    /\ SentArguments.threshold = ANum(101)
    /\ IsError(-32602)
    /\ resp.message = <<"pcli2 folder part-match", " failed: ", "Invalid argument '",
                        "threshold", "': value ", "101", " must be between ", "0",
                        " and ", "100">>
    /\ fx = {}

AssetIdentifierTools == {"pcli2_asset_get", "pcli2_geometric_match",
                         "pcli2_asset_part_match", "pcli2_asset_thumbnail"}
FolderIdentifierTools == {"pcli2_folder_get"}
IdentifierCall ==
    /\ ToolCall /\ SentName.some
    /\ SentName.v \in AssetIdentifierTools \cup FolderIdentifierTools
\* how many of the tool's two identifiers the call supplies
Identifiers ==
    IF SentName.v \in FolderIdentifierTools
    THEN {k \in {"folder_uuid", "folder_path"} : SentArguments[k].t = "string"}
    ELSE {k \in {"uuid", "path"} : SentArguments[k].t = "string"}

\* C26: for every tool that identifies its target by uuid or path (or
\* folder_uuid or folder_path), a call that supplies neither identifier, and a
\* call that supplies both, is refused with an error before the subprocess is
\* invoked.
C26_ExactlyOneIdentifier ==
    (pc # "idle" /\ IdentifierCall /\ Cardinality(Identifiers) # 1) =>
        /\ Done
        /\ IsError(-32602)
        /\ "spawn" \notin fx

ErrorCodes == {-32700, -32600, -32601, -32602}

\* C27: handle_mcp answers every input with HTTP status 200: parse errors,
\* invalid requests, unknown methods, notifications, tool failures and
\* successes; an error is signalled only by the error member of the envelope.
C27_AlwaysStatus200 ==
    Done =>
        /\ resp.status = 200
        /\ \/ ~HasBody
           \/ resp.members = {"jsonrpc", "id", "result"}
           \/ resp.members = {"jsonrpc", "id", "error"} /\ resp.code \in ErrorCodes

C27_Witness ==
    /\ Done
    /\ ~req.wf
    /\ IsError(-32700)
    /\ resp.status = 200

(***************************************************************************)
(* The tasks of run_pcli2_command at its return (SpecRun).                 *)
(***************************************************************************)
\* C30: when run_pcli2_command returns after it spawned the child (success,
\* non-zero exit, overflow of a stream, timeout), the child has been waited
\* for and both drain tasks have finished: none is still reading its pipe.
C30_AllJoinedAtReturn ==
    (rpc = "returned" /\ result.kind # "spawn") =>
        /\ child # "running"
        /\ \A s \in Streams : seen[s] # "reading" /\ task[s] # "reading"

(***************************************************************************)
(* The cache under concurrent requests (SpecRace).                         *)
(***************************************************************************)
Loadable(key) == exists(disk, cache_path(key)) /\ ~is_expired(disk, millis, key)

\* C28: cleanup_expired does not delete the payload of an entry within its
\* TTL, whatever a concurrent save_thumbnail is doing: an entry whose save
\* returns Ok is loadable from that moment until its TTL has elapsed, unless
\* remove_thumbnail or load_thumbnail was called with its key.
C28_CleanupSparesFreshEntries ==
    \A t \in Threads :
        (/\ th[t].op = "save" /\ th[t].at = "returned"
         /\ th[t].key \notin touched
         /\ millis - th[t].cached_at <= ttl_millis) => Loadable(th[t].key)

\* C29: when load_thumbnail succeeds, whatever save_thumbnail,
\* remove_thumbnail or cleanup_expired steps ran beside it, the bytes it
\* returns are a complete payload given to a save of that key; never an empty,
\* partial or other payload.
C29_LoadReturnsSavedPayload ==
    \A t \in Threads :
        (th[t].op = "load" /\ th[t].at = "returned" /\ th[t].ok) =>
            th[t].bytes \in given[th[t].key]

(***************************************************************************)
(* Termination and results of run_pcli2_command (SpecRunFair, SpecRun).    *)
(***************************************************************************)
\* the clock of the model has room for the whole timeout of this call
TimerInRange == procDeadline <= MaxClock

\* C31: every call of run_pcli2_command that has spawned its child eventually
\* returns a success or an error, also when the child never exits, never
\* closes its streams, or exits while another process keeps a stream open (a
\* call whose spawn fails returns in the same step).
C31_EventuallyReturns ==
    (rpc = "wait" /\ TimerInRange) ~> (rpc = "returned" /\ result # NoRun)

C31_Witness ==
    /\ rpc = "returned"
    /\ result = TimeoutErr(TheLabel)
    /\ child = "exited"
    /\ held["stdout"]
    /\ seen["stdout"] = "reading"

\* the child exited with success and both streams were read to their end
\* within the limit
CleanRun ==
    /\ child = "exited" /\ status = "success"
    /\ \A s \in Streams : /\ seen[s] = "ok"
                          /\ pipe[s] = 0 /\ ~wopen[s] /\ ~held[s]
                          /\ buf[s] <= MAX_PCLI2_OUTPUT_BYTES

\* C32: run_pcli2_command returns Ok only when the child exited with success
\* status, both streams were drained to end-of-file within the size limit and
\* the timeout did not fire; otherwise (stderr alone overflowing under a
\* success status included) it returns Err.
C32_OkOnlyAfterCleanRun ==
    rpc = "returned" =>
        /\ result.ok => CleanRun
        /\ ~CleanRun => ~result.ok
        /\ result.kind = "timeout" => ~result.ok
        /\ (status = "success" /\ seen["stderr"] = "overflow"
                /\ seen["stdout"] = "ok") =>
               result \in {OverflowErr("stderr"), TimeoutErr(TheLabel)}

C32_Witness ==
    /\ rpc = "returned"
    /\ child = "exited" /\ status = "success"
    /\ seen = [s \in Streams |-> IF s = "stderr" THEN "overflow" ELSE "ok"]
    /\ result = OverflowErr("stderr")

(***************************************************************************)
(* More properties of the thumbnail cache (SpecCache).                     *)
(***************************************************************************)
\* the entry of `key` in d has a readable sidecar more than a TTL old at t
Stale(d, t, key) ==
    /\ exists(d, PayloadOf(key))
    /\ d[SidecarOf(key)].t = "meta"
    /\ t - d[SidecarOf(key)].cached_at > ttl_millis

\* C33: a successful load_thumbnail leaves every file as it was, the payload
\* and the sidecar with its creation time included; and an entry whose creation
\* time is more than a TTL ago is reported expired by the next load_thumbnail
\* and removed by the next cleanup_expired, also when it has just been loaded.
C33_LoadKeepsCreationTime ==
    /\ (ret.op = "load" /\ ret.ok) => disk = was
    /\ (ret.op = "load" /\ Stale(was, ret.at, ret.key)) =>
          (~ret.ok /\ ret.err = Expired)
    /\ ret.op = "cleanup" =>
          \A k \in GeneratedKeys : Stale(was, ret.at, k) => Gone(disk, k)
    /\ (prev.op = "load" /\ prev.ok /\ ret.op = "load" /\ ret.key = prev.key
            /\ ret.ok) =>
          /\ disk[SidecarOf(ret.key)].t = "meta"
          /\ ret.at - disk[SidecarOf(ret.key)].cached_at <= ttl_millis
          /\ ret.bytes = prev.bytes

C33_Witness ==
    /\ prev.op = "load" /\ prev.ok
    /\ ret.op = "load" /\ ret.key = prev.key
    /\ ret.err = Expired
    /\ ret.at > prev.at
    /\ Stale(was, ret.at, ret.key)

\* in d every entry of the cache has its payload and its sidecar, or neither
Paired(d) ==
    \A k \in GeneratedKeys : exists(d, PayloadOf(k)) <=> exists(d, SidecarOf(k))
CompleteOps == {"save", "load", "remove", "cleanup"}

\* C34: the cache starts with no entry, and every save_thumbnail,
\* load_thumbnail, remove_thumbnail and cleanup_expired that runs to its end,
\* alone and without I/O failure, on a cache in which each key has both files
\* or neither leaves it so: after any sequence of them the payload of a key
\* exists if and only if its sidecar exists.
C34_PayloadIffSidecar ==
    /\ ops = 0 => Paired(disk)
    /\ (ret.op \in CompleteOps /\ Paired(was)) => Paired(disk)
    /\ (ret.op \in CompleteOps /\ prev.op \in CompleteOps \cup {"none"} /\ ops <= 2) =>
          Paired(disk)

C34_Witness ==
    /\ prev.op = "save" /\ ret.op = "cleanup"
    /\ ret.at > prev.at + ttl_millis
    /\ exists(was, PayloadOf(prev.key)) /\ exists(was, SidecarOf(prev.key))
    /\ Gone(disk, prev.key)
    /\ Paired(disk)

(***************************************************************************)
(* Notifications and the tools' arguments (Spec).                          *)
(***************************************************************************)
\* C35: a request whose id is absent or null never makes a tool run: for a
\* notification, and one whose method is tools/call in particular, call_tool
\* is not entered, no subprocess is spawned and the thumbnail cache is neither
\* written nor cleaned.
C35_NotificationRunsNothing ==
    (pc # "idle" /\ req.wf /\ Sent.t = "object" /\ NoId) =>
        /\ Done
        /\ dispatched = "none"
        /\ called = NoCall
        /\ ran = NoRan
        /\ fx = {}

C35_Witness ==
    /\ Done /\ WellShaped /\ NoId
    /\ Sent.id = JNull
    /\ Sent.method = JStr("tools/call")
    /\ SentTool = "pcli2_asset_thumbnail"
    /\ SentArguments.uuid = JStr("u1")
    /\ ~HasBody
    /\ fx = {}

(***************************************************************************)
(* The output files of concurrent thumbnail calls (SpecTemp).              *)
(***************************************************************************)
InFlight(t) == th[t].op = "thumbnail" /\ th[t].at \in {"run", "read", "remove"}

\* C36: two thumbnail calls in flight at the same time use distinct temporary
\* files, and a call that read its output file read the image pcli2 wrote for
\* its own asset.
C36_DistinctTempFiles ==
    /\ \A t, u \in Threads : (t # u /\ InFlight(t) /\ InFlight(u)) => th[t].key # th[u].key
    /\ \A t \in Threads :
          (th[t].op = "thumbnail" /\ th[t].at \in {"remove", "returned"} /\ th[t].ok) =>
              th[t].bytes = ThumbnailOf(th[t].source).bytes

\* a thumbnail call that has returned
ThumbnailCallDone == ToolCallDone /\ SentTool = "pcli2_asset_thumbnail"

\* C37: the thumbnail tool saves in the cache or returns to the caller only
\* output that begins with the PNG signature; for an output file that does not,
\* it returns the error 'Thumbnail output was not a valid PNG file.' and does
\* not touch the cache.
C37_OnlyPngSavedOrReturned ==
    ThumbnailCallDone =>
        /\ (called.ok \/ "cache_save" \in fx) => (ran.run.ok /\ ran.file = "png")
        /\ (ran.run.ok /\ ran.file = "not_png") =>
              /\ ~called.ok
              /\ called.text = <<"Thumbnail output was not a valid PNG file.">>
              /\ "cache_save" \notin fx

C37_Witness ==
    /\ ThumbnailCallDone
    /\ ran.run.ok /\ ran.file = "not_png"
    /\ cacheAvail
    /\ Mode = "url"
    /\ called.text = <<"Thumbnail output was not a valid PNG file.">>

\* the folder match tools, which all take `concurrent`
ConcurrentTools == FolderMatchTools \cup {"pcli2_folder_visual_match"}
ConcurrentCall == ToolCall /\ SentName.some /\ SentName.v \in ConcurrentTools
ConcurrentOutOfRange ==
    /\ SentArguments.concurrent.t = "number"
    /\ (SentArguments.concurrent.n < 1 \/ SentArguments.concurrent.n > 10)
\* the --concurrent N the command line of the call carries, if any
ConcurrentFlag == push_opt_u64(SentArguments.concurrent, "--concurrent")

\* C38: for every folder match tool, an integer `concurrent` outside [1, 10]
\* (0, 11 or a negative integer) is rejected with a 'must be between 1 and 10'
\* error before the subprocess is spawned; whenever the subprocess is invoked
\* with --concurrent N, 1 <= N <= 10.
C38_ConcurrentRange ==
    (pc # "idle" /\ ConcurrentCall /\ ~ThresholdOutOfRange) =>
        /\ ConcurrentOutOfRange =>
              /\ Done
              /\ IsError(-32602)
              /\ SaysBetween(resp.message, "concurrent", "1", "10")
              /\ "spawn" \notin fx
        /\ ("spawn" \in fx /\ ConcurrentFlag # <<>>) =>
              ConcurrentFlag \in {<<"--concurrent", ToString(n)>> : n \in 1..10}

(***************************************************************************)
(* The bound of read_limited (SpecRun).                                    *)
(***************************************************************************)
\* C39: read_limited returns all the bytes of a stream whose total length is at
\* most the limit (exactly the limit is accepted), returns the 'exceeded
\* maximum output size' error as soon as the accumulated length would exceed
\* the limit, and never buffers more than the limit.
C39_ReadLimitedBound ==
    \A s \in Streams :
        /\ buf[s] <= MAX_PCLI2_OUTPUT_BYTES
        /\ (task[s] = "overflow") <=> (got[s] > MAX_PCLI2_OUTPUT_BYTES)
        /\ task[s] \in {"reading", "ok"} => buf[s] = got[s]
        /\ task[s] = "ok" => (pipe[s] = 0 /\ ~wopen[s] /\ ~held[s])

C39_Witness ==
    /\ task["stdout"] = "ok"
    /\ buf["stdout"] = MAX_PCLI2_OUTPUT_BYTES
    /\ task["stderr"] = "overflow"
    /\ got["stderr"] = MAX_PCLI2_OUTPUT_BYTES + 1

====
